---------------------------- MODULE Spec2Model ----------------------------
(***************************************************************************)
(* A model of scripts/fetch_awesome_llm_apps.py: the three-tier fetch of   *)
(* a project's documentation (API with retry, raw-content fallback,        *)
(* source-file analysis) and the sequential run over the catalog.          *)
(*                                                                         *)
(* Encoding of Python values:                                              *)
(*   - a str is a tuple of line-strings; "" is << >>;                      *)
(*   - None is the reserved tuple None, which is no text of the model;     *)
(*   - a URL is a tuple of tokens (see Tokens), on which the URL regular   *)
(*     expression is evaluated token by token;                             *)
(*   - a float number of seconds is an integer number of seconds.          *)
(***************************************************************************)
EXTENDS Integers, Sequences, FiniteSets, TLC

VARIABLES
    readme_exists,     \* whether docs/awesome-llm-apps/README.md exists
    catalog,           \* main: categories, the mapping scanned from the README,
                       \*   as the sequence of its items in insertion order
    cat_i,             \* main: index of the category being processed
    dirs,              \* the output tree: set of the directories created
    processed,         \* observation: the projects passed to process_project
    skip_cache,        \* main: args.skip_cache
    dry_run,           \* main: '--dry-run' in sys.argv
    pc,                \* position of the (single) thread of control
    stack,             \* return positions of the calls in progress
    ret,               \* value returned by the last call that returned
    fetch_operation,   \* fetch_with_retry: which callable is bound
    max_retries,       \* fetch_with_retry: argument
    initial_wait,      \* fetch_with_retry: argument
    attempt,           \* fetch_with_retry: loop variable
    repo_url,          \* fetch_raw_readme: argument
    branch,            \* fetch_raw_readme: argument
    readme_i,          \* fetch_raw_readme: index into readme_filenames
    proj_i,            \* main: index of the project being processed
    readme_cache,      \* main: the README cache (None when --skip-cache)
    readme_content,    \* process_project: local
    final_content,     \* process_project: local
    final_metadata,    \* process_project: local
    temp_left,         \* observation: a temporary file made by this call of
                       \* process_project is still on disk
    file_i,            \* process_project: index into common_filenames
    files,             \* the output tree: set of written pages
    successful_count,  \* main: counter
    failed_count,      \* main: counter
    exit_code,         \* main: return value (-1 while running)
    trace,             \* observation: kinds of the remote calls, in order
    api_calls,         \* observation: attempt numbers of the API invocations
    sleeps,            \* observation: durations passed to time.sleep
    raw_calls,         \* observation: <<url, branch>> of fetch_raw_readme calls
    raw_requests,      \* observation: <<owner, repo, branch, filename>> requested
    src_requests,      \* observation: <<owner, repo, branch, filename>> requested
    raised,            \* the exception that left the function called on its own
    lines,             \* parse_main_readme: content.split("\n")
    line_i,            \* parse_main_readme: index of `line` in lines
    categories,        \* parse_main_readme: the mapping being built
    current_category,  \* parse_main_readme: local
    parse_log,         \* observation: <<line number, project>> of each project added
    file_state,        \* extract_python_metadata: what the file at file_path is
    py_tree,           \* extract_python_metadata: `tree`, ast.parse(content)
    node_i,            \* extract_python_metadata: index of `node` in tree.body
    py_metadata,       \* extract_python_metadata: `metadata`, the result being built
    method_names,      \* extract_python_metadata: local
    output_dir_exists, \* gather_agent_metadata: output_path.exists()
    markdown_files,    \* gather_agent_metadata: list(output_path.rglob("*.md"))
    md_i,              \* gather_agent_metadata: index of md_file in markdown_files
    agents_by_category,\* gather_agent_metadata: the mapping being built
    parsed_successfully, \* gather_agent_metadata: counter
    parse_errors,      \* gather_agent_metadata: counter
    markdown           \* generate_homepage_markdown: the text being built

vars == << readme_exists, catalog, cat_i, dirs, processed, skip_cache, dry_run, pc, stack, ret, fetch_operation,
           max_retries, initial_wait, attempt, repo_url, branch, readme_i,
           proj_i, readme_cache, readme_content, final_content, final_metadata,
           temp_left, file_i, files, successful_count, failed_count, exit_code, trace, api_calls, sleeps,
           raw_calls, raw_requests, src_requests, raised, lines, line_i,
           categories, current_category, parse_log, file_state, py_tree,
           node_i, py_metadata, method_names, output_dir_exists,
           markdown_files, md_i, agents_by_category, parsed_successfully,
           parse_errors, markdown >>

-----------------------------------------------------------------------------
(* Bounds of the model.                                                    *)

MaxRetriesArg == 4      \* largest max_retries passed to fetch_with_retry alone
MaxInitialWait == 2     \* largest initial_wait passed to fetch_with_retry alone
MaxUrlLen == 5          \* longest URL (in tokens) passed to fetch_raw_readme alone
MaxProjects == 2        \* longest catalog
MaxNodes == 2           \* most statements in the body of an analysed module
MaxLines == 3           \* longest document (in lines) passed to parse_main_readme
MaxFiles == 3           \* most Markdown files below the output directory

-----------------------------------------------------------------------------
(* Values.                                                                 *)

None == <<"None">>

\* Python truthiness of an Optional[str]: `if content:`
Truthy(v) == v # None /\ v # << >>

\* README bodies the remote side can serve (the empty body included).
Texts == { << >>, <<"readme A">>, <<"readme B">> }

\* URL tokens: the host literal, the separators, the '.git' suffix, a
\* lower-case name and a name holding an upper-case letter.
Tokens == { "github.com", "/", ":", ".git", "a", "B" }

RECURSIVE SeqsUpTo(_, _)
SeqsUpTo(S, n) ==
    IF n = 0 THEN { << >> }
    ELSE LET shorter == SeqsUpTo(S, n - 1)
         IN  shorter \cup { Append(s, x) : s \in shorter, x \in S }

-----------------------------------------------------------------------------
(* The URL pattern  github\.com[/:]?([^/]+)/([^/]+?)(?:\.git)?/?$          *)

NoMatch == << >>

\* Length of the longest prefix of s holding no "/": what [^/]+ can take.
RECURSIVE NonSlashRun(_)
NonSlashRun(s) ==
    IF s = << >> \/ Head(s) = "/" THEN 0 ELSE 1 + NonSlashRun(Tail(s))

\* ([^/]+?)(?:\.git)?/?$ on q: the lazy group stops before a final '.git'.
RepoPart(q) ==
    LET n == NonSlashRun(q)
        rest == SubSeq(q, n + 1, Len(q))
        full == SubSeq(q, 1, n)
    IN  IF n = 0 \/ ~(rest = << >> \/ rest = <<"/">>) THEN NoMatch
        ELSE IF n >= 2 /\ full[n] = ".git" THEN SubSeq(full, 1, n - 1)
        ELSE full

\* ([^/]+)/([^/]+?)(?:\.git)?/?$ on r: <<owner, repo>> or NoMatch.
OwnerRepo(r) ==
    LET n == NonSlashRun(r)
        q == SubSeq(r, n + 2, Len(r))
    IN  IF n = 0 \/ n = Len(r) THEN NoMatch
        ELSE IF RepoPart(q) = NoMatch THEN NoMatch
        ELSE << SubSeq(r, 1, n), RepoPart(q) >>

\* The pattern anchored after a 'github.com' at position i: the optional
\* [/:] is taken first, and given back when nothing matches with it.
MatchAt(u, i) ==
    LET r == SubSeq(u, i + 1, Len(u))
        taken == IF r # << >> /\ Head(r) \in {"/", ":"}
                 THEN OwnerRepo(Tail(r)) ELSE NoMatch
    IN  IF taken # NoMatch THEN taken ELSE OwnerRepo(r)

\* url_pattern.search(u): the match at the leftmost position that has one.
url_pattern_search(u) ==
    LET starts == { i \in 1..Len(u) : u[i] = "github.com" /\ MatchAt(u, i) # NoMatch }
    IN  IF starts = {} THEN NoMatch
        ELSE MatchAt(u, CHOOSE i \in starts : \A j \in starts : i <= j)

-----------------------------------------------------------------------------
(* Calls and returns.                                                      *)

\* `return v`: control goes back to the caller, or the run is over.
Return(v) ==
    /\ ret' = v
    /\ pc' = IF stack = << >> THEN "done" ELSE Head(stack)
    /\ stack' = IF stack = << >> THEN << >> ELSE Tail(stack)

parseVars == << lines, line_i, categories, current_category, parse_log >>
analyzeVars == << file_state, py_tree, node_i, py_metadata, method_names >>
homeVars == << output_dir_exists, markdown_files, md_i, agents_by_category,
              parsed_successfully, parse_errors, markdown >>
mainVars == << readme_exists, catalog, cat_i, dirs, processed, skip_cache,
               dry_run, proj_i, readme_cache, files, successful_count,
               failed_count, exit_code, raised, parseVars, analyzeVars,
               homeVars >>
ppVars == << readme_content, final_content, final_metadata, temp_left, file_i,
            src_requests >>
retryVars == << fetch_operation, max_retries, initial_wait, attempt,
                api_calls, sleeps >>
rawVars == << repo_url, branch, readme_i, raw_calls, raw_requests >>

\* The values of the locals and observations of a function not in progress.
MainIdle ==
    /\ readme_exists = FALSE /\ catalog = << >> /\ cat_i = 0 /\ dirs = {}
    /\ processed = << >> /\ skip_cache = FALSE /\ dry_run = FALSE
    /\ proj_i = 0 /\ readme_cache = [ is_none |-> TRUE, items |-> {} ] /\ files = {}
    /\ successful_count = 0 /\ failed_count = 0 /\ exit_code = -1
    /\ raised = "none"

\* `categories` as a sequence of items [name, projects], in insertion order.
NoCategories == << >>

\* A docstring, absent or present, as the lines of its text; a line is a
\* Python str, the tuple of its characters.
NoDoc == [ is_none |-> TRUE, text |-> << >> ]

\* tree before ast.parse has run: no docstring, empty body
NoTree == [ doc |-> NoDoc, body |-> << >> ]

\* metadata = {'name': ..., 'description': None, 'functions': [], 'classes': [], ...}
NoMetadata ==
    [ description |-> None, functions |-> << >>, classes |-> << >> ]

ParseIdle ==
    /\ lines = << >> /\ line_i = 0 /\ categories = NoCategories
    /\ current_category = << >> /\ parse_log = << >>

\* gather_agent_metadata and generate_homepage_markdown not in progress
HomeIdle ==
    /\ output_dir_exists = FALSE /\ markdown_files = << >> /\ md_i = 0
    /\ agents_by_category = << >> /\ parsed_successfully = 0
    /\ parse_errors = 0 /\ markdown = << >>

AnalyzeIdle ==
    /\ file_state = "none" /\ py_tree = NoTree /\ node_i = 0
    /\ py_metadata = NoMetadata /\ method_names = {}

\* final_metadata before it is built; a key that is absent has the value
\* None, python_metadata tells whether that key is there.
NoFinalMetadata ==
    [ title |-> << >>, url |-> << >>, category |-> << >>, description |-> None,
      python_metadata |-> FALSE ]

ProjectIdle ==
    /\ readme_content = None /\ final_content = << >> /\ file_i = 0
    /\ src_requests = << >> /\ final_metadata = NoFinalMetadata
    /\ temp_left = FALSE

RetryIdle ==
    /\ fetch_operation = "none" /\ max_retries = 0 /\ initial_wait = 0
    /\ attempt = 0 /\ api_calls = << >> /\ sleeps = << >>

RawIdle ==
    /\ repo_url = << >> /\ branch = "main" /\ readme_i = 0
    /\ raw_calls = << >> /\ raw_requests = << >>

\* A frame is dropped: its locals and observations go back to those values.
ResetProject ==
    /\ readme_content' = None /\ final_content' = << >> /\ file_i' = 0
    /\ src_requests' = << >> /\ final_metadata' = NoFinalMetadata
    /\ temp_left' = FALSE

ResetRetry ==
    /\ fetch_operation' = "none" /\ max_retries' = 0 /\ initial_wait' = 0
    /\ attempt' = 0 /\ api_calls' = << >> /\ sleeps' = << >>

ResetRaw ==
    /\ repo_url' = << >> /\ branch' = "main" /\ readme_i' = 0
    /\ raw_calls' = << >> /\ raw_requests' = << >>


-----------------------------------------------------------------------------
(* fetch_with_retry                                                        *)

\* What one invocation of the bound operation can return.  fetch_via_api
\* ends in .decode('utf-8') and so returns a str; an arbitrary callable may
\* return anything, None included.
OperationReturns(op) ==
    IF op = "fetch_via_api" THEN Texts ELSE Texts \cup { None }

\* What one invocation can raise: the rate-limit signal or anything else.
OperationRaises == { "RateLimitExceededException", "Exception" }

\* One invocation, as observed: its attempt number and what it did.
ApiCall(k, outcome, v) == [ attempt |-> k, outcome |-> outcome, value |-> v ]

\* for attempt in range(max_retries)
InRange(k, n) == k < n

\* which `except` clause takes the exception
IsRateLimitAll(failure) == TRUE
IsRateLimit(failure) == failure = "RateLimitExceededException"

\* wait_time = initial_wait * (2 ** attempt)
BackoffWaitLinear(w, k) == w * (k + 1)
BackoffWait(w, k) == w * (2 ^ k)

\* if attempt < max_retries - 1: sleep and go round again
RetriesLeftNever(k, n) == FALSE
RetriesLeft(k, n) == k < n - 1

\* try: result = fetch_operation(repo_name); return result
RetryReturns ==
    /\ pc = "fetch_with_retry"
    /\ InRange(attempt, max_retries)
    /\ \E v \in OperationReturns(fetch_operation) :
          /\ api_calls' = Append(api_calls, ApiCall(attempt, "return", v))
          /\ trace' = Append(trace, "api")
          /\ Return(v)
    /\ UNCHANGED << mainVars, ppVars, rawVars, fetch_operation, max_retries,
                    initial_wait, attempt, sleeps >>

\* except RateLimitExceededException: sleep and retry, or give up;
\* except Exception: return None
RetryRaises ==
    /\ pc = "fetch_with_retry"
    /\ InRange(attempt, max_retries)
    /\ \E failure \in OperationRaises :
          /\ api_calls' = Append(api_calls, ApiCall(attempt, failure, None))
          /\ IF IsRateLimit(failure)
             THEN IF RetriesLeft(attempt, max_retries)
                  THEN /\ sleeps' = Append(sleeps, BackoffWait(initial_wait, attempt))
                       /\ trace' = trace \o <<"api", "sleep">>
                       /\ attempt' = attempt + 1
                       /\ UNCHANGED << pc, stack, ret >>
                  ELSE /\ trace' = Append(trace, "api")
                       /\ Return(None)
                       /\ UNCHANGED << sleeps, attempt >>
             ELSE /\ trace' = Append(trace, "api")
                  /\ Return(None)
                  /\ UNCHANGED << sleeps, attempt >>
    /\ UNCHANGED << mainVars, ppVars, rawVars, fetch_operation, max_retries,
                    initial_wait >>

\* the for loop ran out (only when max_retries <= 0): return None
RetryExhausted ==
    /\ pc = "fetch_with_retry"
    /\ ~InRange(attempt, max_retries)
    /\ Return(None)
    /\ UNCHANGED << mainVars, ppVars, rawVars, retryVars, trace >>

-----------------------------------------------------------------------------
(* fetch_raw_readme                                                        *)

readme_filenames_and_txt ==
    << "README.md", "README.markdown", "README.rst", "README", "README.txt" >>
readme_filenames == << "README.md", "README.markdown", "README.rst", "README" >>

Branches == { "main", "master", "dev" }

\* if not match: return None
NoOwnerRepoHostOnly(u) == \A i \in 1..Len(u) : u[i] # "github.com"
NoOwnerRepo(u) == url_pattern_search(u) = NoMatch

\* owner, repo = match.groups(), or `return None` when there is no match
RawEntry ==
    /\ pc = "fetch_raw_readme"
    /\ raw_calls' = Append(raw_calls, << repo_url, branch >>)
    /\ IF NoOwnerRepo(repo_url)
       THEN /\ Return(None)
            /\ UNCHANGED readme_i
       ELSE /\ readme_i' = 1
            /\ pc' = "raw_loop"
            /\ UNCHANGED << stack, ret >>
    /\ UNCHANGED << mainVars, ppVars, retryVars, repo_url, branch,
                    raw_requests, trace >>

\* raw_url = f"https://raw.githubusercontent.com/{owner}/{repo}/{branch}/{readme_name}"
RawUrl(u, b, name) ==
    LET m == url_pattern_search(u)
    IN  IF m = NoMatch THEN << << >>, << >>, b, name >>
        ELSE << m[1], m[2], b, name >>

\* One request, as observed: its URL and what came back ("ok" with the body,
\* or "failed" whatever the failure was).
RawRequest(url, outcome, body) == [ url |-> url, outcome |-> outcome, body |-> body ]

\* urlopen succeeded and the body decoded: return content
RawRequestSucceeds ==
    /\ pc = "raw_loop"
    /\ readme_i <= Len(readme_filenames)
    /\ \E body \in Texts :
          /\ raw_requests' = Append(raw_requests,
                 RawRequest(RawUrl(repo_url, branch, readme_filenames[readme_i]), "ok", body))
          /\ Return(body)
    /\ trace' = Append(trace, "raw")
    /\ UNCHANGED << mainVars, ppVars, retryVars, repo_url, branch, readme_i,
                    raw_calls >>

\* What a request can raise.
RawFailures == { "HTTPError 404", "HTTPError", "URLError", "Exception" }

\* every except clause of the loop ends in `continue`
SkipsOnlyNotFound(failure) == failure = "HTTPError 404"
SkipsCandidate(failure) == failure \in RawFailures

RawRequestFails ==
    /\ pc = "raw_loop"
    /\ readme_i <= Len(readme_filenames)
    /\ \E failure \in RawFailures :
          /\ raw_requests' = Append(raw_requests,
                 RawRequest(RawUrl(repo_url, branch, readme_filenames[readme_i]), "failed", None))
          /\ IF SkipsCandidate(failure)
             THEN /\ readme_i' = readme_i + 1
                  /\ UNCHANGED << pc, stack, ret >>
             ELSE /\ Return(None)
                  /\ UNCHANGED readme_i
    /\ trace' = Append(trace, "raw")
    /\ UNCHANGED << mainVars, ppVars, retryVars, repo_url, branch, raw_calls >>

\* if branch == "main": return fetch_raw_readme(repo_url, branch="master")
TriesMasterFromAny(b) == b # "master"
TriesMaster(b) == b = "main"

RawLoopEnds ==
    /\ pc = "raw_loop"
    /\ readme_i > Len(readme_filenames)
    /\ IF TriesMaster(branch)
       THEN /\ branch' = "master"
            /\ pc' = "fetch_raw_readme"
            /\ UNCHANGED << stack, ret >>
       ELSE /\ Return(None)
            /\ UNCHANGED branch
    /\ UNCHANGED << mainVars, ppVars, retryVars, repo_url, readme_i, raw_calls,
                    raw_requests, trace >>

-----------------------------------------------------------------------------
(* fetch_project_readme                                                    *)

PyTrue == <<"True">>
PyFalse == <<"False">>

\* def fetch_with_retry(..., max_retries: int = 3, initial_wait: float = 1.0)
DefaultMaxRetries == 3
DefaultInitialWait == 1

\* The project main is processing: `project` of the inner loop.
Project == catalog[cat_i].projects[proj_i]

\* match the URL; `return None` without a match, else
\* content = fetch_with_retry(github_client, fetch_via_api, repo_name)
FprEntry ==
    /\ pc = "fetch_project_readme"
    /\ IF NoOwnerRepo(Project.url)
       THEN /\ Return(None)
            /\ UNCHANGED << retryVars, trace >>
       ELSE /\ fetch_operation' = "fetch_via_api"
            /\ max_retries' = DefaultMaxRetries
            /\ initial_wait' = DefaultInitialWait
            /\ attempt' = 0
            /\ trace' = Append(trace, "call fetch_with_retry")
            /\ stack' = << "fpr_after_api" >> \o stack
            /\ pc' = "fetch_with_retry"
            /\ UNCHANGED << ret, api_calls, sleeps >>
    /\ UNCHANGED << mainVars, ppVars, rawVars >>

\* `if content:` after either tier
HasContentNotNone(v) == v # None
HasContent(v) == Truthy(v)

\* if content: return content;  else content = fetch_raw_readme(project.url)
FprAfterApi ==
    /\ pc = "fpr_after_api"
    /\ IF HasContent(ret)
       THEN /\ Return(ret)
            /\ UNCHANGED << repo_url, branch, trace >>
       ELSE /\ repo_url' = Project.url
            /\ branch' = "main"
            /\ trace' = Append(trace, "call fetch_raw_readme")
            /\ stack' = << "fpr_after_raw" >> \o stack
            /\ pc' = "fetch_raw_readme"
            /\ UNCHANGED ret
    /\ UNCHANGED << mainVars, ppVars, retryVars, readme_i, raw_calls, raw_requests >>

\* if content: return content;  else return None
FprAfterRaw ==
    /\ pc = "fpr_after_raw"
    /\ IF HasContent(ret) THEN Return(ret) ELSE Return(None)
    /\ UNCHANGED << mainVars, ppVars, retryVars, rawVars, trace >>

-----------------------------------------------------------------------------
(* process_project                                                         *)

\* The cache: Optional[Dict[str, str]], a record telling whether it is None
\* and the dict's items as <<url, text>> pairs.
NoCache == [ is_none |-> TRUE, items |-> {} ]
EmptyCache == [ is_none |-> FALSE, items |-> {} ]

\* `readme_cache and project.url in readme_cache`
CacheHit(cache, url) ==
    ~cache.is_none /\ cache.items # {} /\ \E e \in cache.items : e[1] = url

\* readme_cache[project.url]
CacheGet(cache, url) == (CHOOSE e \in cache.items : e[1] = url)[2]

\* readme_cache[project.url] = readme_content
CachePutNothing(cache, url, text) == cache
CachePut(cache, url, text) ==
    [ cache EXCEPT !.items = { e \in @ : e[1] # url } \cup { << url, text >> } ]

\* final_metadata = {'title': ..., 'url': ..., 'category': ...}
InitialMetadata(project) ==
    [ title |-> project.title, url |-> project.url,
      category |-> project.category, description |-> None,
      python_metadata |-> FALSE ]

\* Check the cache; fetch the README when it gave nothing.
PPStart ==
    /\ pc = "process_project"
    /\ LET cached == IF CacheHit(readme_cache, Project.url)
                     THEN CacheGet(readme_cache, Project.url) ELSE None
       IN  /\ readme_content' = cached
           /\ IF ~Truthy(cached)
              THEN /\ stack' = << "pp_after_fetch" >> \o stack
                   /\ pc' = "fetch_project_readme"
              ELSE /\ pc' = "pp_tiers"
                   /\ UNCHANGED stack
    /\ final_content' = << >>
    /\ final_metadata' = InitialMetadata(Project)
    /\ UNCHANGED << mainVars, ret, file_i, src_requests, temp_left, retryVars,
                    rawVars, trace >>

\* readme_content = fetch_project_readme(...); cache it if we got content.
\* The callee's frames are gone: its locals and the observations of the
\* call are reset (trace keeps the kinds of the remote calls).
PPAfterFetch ==
    /\ pc = "pp_after_fetch"
    /\ readme_content' = ret
    /\ readme_cache' = IF Truthy(ret) /\ ~readme_cache.is_none
                       THEN CachePut(readme_cache, Project.url, ret)
                       ELSE readme_cache
    /\ pc' = "pp_tiers"
    /\ ret' = None
    /\ ResetRetry /\ ResetRaw
    /\ UNCHANGED << readme_exists, catalog, cat_i, dirs, processed, skip_cache,
                    dry_run, proj_i, files, successful_count, failed_count,
                    exit_code, stack, final_content, final_metadata,
                    temp_left, file_i, src_requests, trace, raised, parseVars,
                    analyzeVars,
                    homeVars >>

\* repo.lower(), token by token
LowerToken(t) == IF t = "B" THEN "b" ELSE t
Lower(name) == [ i \in 1..Len(name) |-> LowerToken(name[i]) ]

\* common_filenames = [f"{repo.lower()}.py", "main.py", "app.py", "run.py", "__init__.py"]
RepoFileAsIs(repo) == repo \o << ".py" >>
RepoFile(repo) == Lower(repo) \o << ".py" >>

common_filenames(repo) ==
    << RepoFile(repo), << "main.py" >>, << "app.py" >>, << "run.py" >>,
       << "__init__.py" >> >>

\* if readme_content: the README is the body;  else start the source-file
\* tier, which needs the URL to match
PPChooseTier ==
    /\ pc = "pp_tiers"
    /\ IF Truthy(readme_content)
       THEN /\ final_content' = readme_content
            /\ final_metadata' =
                 IF Truthy(Project.description)
                 THEN [ final_metadata EXCEPT !.description = Project.description ]
                 ELSE final_metadata
            /\ pc' = "pp_output"
            /\ UNCHANGED file_i
       ELSE IF ~NoOwnerRepo(Project.url)
       THEN /\ file_i' = 1
            /\ pc' = "pp_tier3"
            /\ UNCHANGED << final_content, final_metadata >>
       ELSE /\ pc' = "pp_output"
            /\ UNCHANGED << final_content, final_metadata, file_i >>
    /\ UNCHANGED << mainVars, readme_content, src_requests, temp_left,
                    retryVars, rawVars, stack, ret, trace >>

\* What extract_python_metadata can give for a downloaded file when it does
\* not return None: a result without description, or a result with one.
Analyses ==
    { [ description |-> None, functions |-> << >>, classes |-> << >> ],
      [ description |-> << "doc" >>, functions |-> << "f" >>, classes |-> << "K" >> ] }

\* if metadata and metadata.get('description')
Usable(metadata) == Truthy(metadata.description)

\* final_content built from the analysis
SourceContent(project, metadata) ==
    << "#" >> \o project.title \o metadata.description
    \o (IF metadata.functions # << >>
        THEN << "## Functions" >> \o metadata.functions ELSE << >>)
    \o (IF metadata.classes # << >>
        THEN << "## Classes" >> \o metadata.classes ELSE << >>)

\* raw_url = f"https://raw.githubusercontent.com/{owner}/{repo}/main/{filename}"
SourceUrl(u, i) ==
    LET m == url_pattern_search(u)
    IN  IF m = NoMatch THEN << << >>, << >>, "main", common_filenames(<< >>)[i] >>
        ELSE << m[1], m[2], "main", common_filenames(m[2])[i] >>

SourceRequest(url, outcome) == [ url |-> url, outcome |-> outcome ]

\* One candidate: the download failed (HTTPError, URLError, another
\* exception), or writing the temporary file failed, or the analysis gave
\* None or nothing usable: next candidate
SourceFailures ==
    { "HTTPError", "URLError", "Exception", "write failed", "metadata is None" }

\* finally: if temp_file and Path(temp_file).exists(): unlink.  temp_file
\* is assigned after f.write: when the write raised, the file that
\* NamedTemporaryFile(delete=False) made is not removed.  (Removing one's
\* own temporary file is taken to succeed.)
LeavesTempFile(failure) == failure = "write failed"

PPSourceSkipped ==
    /\ pc = "pp_tier3"
    /\ file_i <= 5
    /\ \/ \E failure \in SourceFailures :
             temp_left' = (temp_left \/ LeavesTempFile(failure))
       \/ \E metadata \in Analyses : ~Usable(metadata) /\ UNCHANGED temp_left
    /\ src_requests' = Append(src_requests,
           SourceRequest(SourceUrl(Project.url, file_i), "skipped"))
    /\ trace' = Append(trace, "src")
    /\ file_i' = file_i + 1
    /\ UNCHANGED << mainVars, readme_content, final_content, final_metadata,
                    retryVars, rawVars, pc, stack, ret >>

\* One candidate downloaded and analysed to a description: build the body, break
PPSourceUsed ==
    /\ pc = "pp_tier3"
    /\ file_i <= 5
    /\ \E metadata \in Analyses :
          /\ Usable(metadata)
          /\ final_content' = SourceContent(Project, metadata)
          /\ final_metadata' = [ final_metadata EXCEPT
                                   !.description = metadata.description,
                                   !.python_metadata = TRUE ]
    /\ src_requests' = Append(src_requests,
           SourceRequest(SourceUrl(Project.url, file_i), "used"))
    /\ trace' = Append(trace, "src")
    /\ pc' = "pp_output"
    /\ UNCHANGED << mainVars, readme_content, temp_left, file_i, retryVars,
                    rawVars, stack, ret >>

\* the for loop over common_filenames ran out
PPSourceExhausted ==
    /\ pc = "pp_tier3"
    /\ file_i > 5
    /\ pc' = "pp_output"
    /\ UNCHANGED << mainVars, ppVars, retryVars, rawVars, stack, ret, trace >>

\* the catalog-only body
CatalogContent(project) ==
    << "#" >> \o project.title
    \o (IF Truthy(project.description) THEN project.description ELSE << >>)
    \o << "**Repository:**" >> \o project.url
    \o << "no README available" >>

\* .replace('/', '-').replace('\\', '-')  and, for titles, .replace(' ', '_')
SafeCategoryToken(t) == IF t \in { "/", "\\" } THEN "-" ELSE t
SafeTitleToken(t) == IF t \in { "/", "\\" } THEN "-" ELSE IF t = " " THEN "_" ELSE t
safe_category_name(c) == [ i \in 1..Len(c) |-> SafeCategoryToken(c[i]) ]
safe_title(t) == [ i \in 1..Len(t) |-> SafeTitleToken(t[i]) ]

\* output_path = Path(output_dir) / safe_category_name / f"{safe_title}.md"
output_path(project) ==
    << safe_category_name(project.category), safe_title(project.title) >>

\* Directories of the output tree, as paths below output_dir.
OutputDir == << >>
CategoryDir(c) == << safe_category_name(c) >>

\* output_file.parent.mkdir(parents=True, exist_ok=True)
MakeParents(tree_dirs, path) == tree_dirs \cup { OutputDir, << path[1] >> }

\* metadata = {title, url, category} plus description `if project.description`
\* (description |-> None stands for a header without that key)
FrontmatterWithoutDescription(project) ==
    [ title |-> project.title, url |-> project.url,
      category |-> project.category, description |-> None ]
Frontmatter(project) ==
    [ title |-> project.title, url |-> project.url,
      category |-> project.category,
      description |-> IF Truthy(project.description)
                      THEN project.description ELSE None ]

\* The page generate_project_output hands to write_markdown_with_frontmatter.
Page(project, content) ==
    [ path |-> output_path(project), metadata |-> Frontmatter(project),
      content |-> content ]

\* open(output_file, 'w'): the page replaces what the path held
WritePage(tree, page) ==
    { f \in tree : f.path # page.path } \cup { page }

\* if not final_content
NoContentNever(content) == FALSE
NoContent(content) == content = << >>

\* if not final_content: the catalog-only body;  the description goes to
\* final_metadata if it has none;  generate_project_output(project,
\* output_dir, final_content), which builds the header from the project
\* (which returns early in a dry run);  return True, or False when the
\* write raised (creating the parent directory, or opening or writing the
\* file)
PPOutput ==
    /\ pc = "pp_output"
    /\ LET body == IF NoContent(final_content)
                   THEN CatalogContent(Project) ELSE final_content
           page == Page(Project, body)
       IN  /\ final_content' = body
           /\ final_metadata' =
                IF Truthy(Project.description) /\ final_metadata.description = None
                THEN [ final_metadata EXCEPT !.description = Project.description ]
                ELSE final_metadata
           /\ IF dry_run
              THEN /\ UNCHANGED << files, dirs >>
                   /\ Return(PyTrue)
              ELSE \/ /\ dirs' = MakeParents(dirs, page.path)
                      /\ files' = WritePage(files, page)
                      /\ Return(PyTrue)
                   \/ /\ dirs' \in { dirs, MakeParents(dirs, page.path) }
                      /\ UNCHANGED files
                      /\ Return(PyFalse)
    /\ UNCHANGED << readme_exists, catalog, cat_i, processed, skip_cache,
                    dry_run, proj_i, readme_cache, successful_count,
                    failed_count, exit_code, readme_content, temp_left, file_i,
                    src_requests, retryVars, rawVars, trace, raised, parseVars,
                    analyzeVars,
                    homeVars >>

-----------------------------------------------------------------------------
(* main                                                                    *)

\* total_projects = sum(len(projects) for projects in categories.values())
CategoryCount(mapping) == Len(mapping)

RECURSIVE total_projects(_)
total_projects(mapping) ==
    IF mapping = << >> THEN 0
    ELSE Len(Head(mapping).projects) + total_projects(Tail(mapping))

\* create_output_structure after the base directory and the directories of
\* the first k categories were made
StructureDirs(mapping, k) ==
    { OutputDir } \cup { CategoryDir(mapping[i].name) : i \in 1..k }

\* if args.skip_cache: None  else: {}
InitialCacheAlways(skip) == EmptyCache
InitialCache(skip) == IF skip THEN NoCache ELSE EmptyCache

\* `return 1` of main before the loops
MainFails ==
    /\ exit_code' = 1
    /\ pc' = "done"
    /\ UNCHANGED << cat_i, proj_i, readme_cache >>

\* The catalog file is missing: return 1.  parse_main_readme raised
\* ValueError (no project): return 1.  create_output_structure raised
\* OSError at the base directory or at a category: return 1.  Otherwise
\* the directories exist, the cache is set up and the loops start.
MainStart ==
    /\ pc = "main"
    /\ IF ~readme_exists
       THEN MainFails /\ UNCHANGED dirs
       ELSE IF total_projects(catalog) = 0
       THEN MainFails /\ UNCHANGED dirs
       ELSE \/ /\ dirs' = StructureDirs(catalog, Len(catalog))
               /\ readme_cache' = InitialCache(skip_cache)
               /\ cat_i' = 1 /\ proj_i' = 1
               /\ pc' = "main_loop"
               /\ UNCHANGED exit_code
            \/ /\ MainFails
               /\ \/ dirs' = dirs
                  \/ \E k \in 1..Len(catalog) : dirs' = StructureDirs(catalog, k - 1)
    /\ UNCHANGED << readme_exists, catalog, processed, skip_cache, dry_run,
                    files, successful_count, failed_count, ppVars, retryVars,
                    rawVars, stack, ret, trace, raised, parseVars, analyzeVars,
                    homeVars >>

\* return 0 if failed_count == 0 else 1
ExitCodeZero(failed) == 0
ExitCode(failed) == IF failed = 0 THEN 0 ELSE 1

\* a for loop at position i (from 1) of seq has nothing left
ExhaustedAfterFirst(i, seq) == i > 1 \/ i > Len(seq)
Exhausted(i, seq) == i > Len(seq)

\* for category_name, projects in categories.items():
\*     for idx, project in enumerate(projects, 1):
\*         success = process_project(...)
\* and, after the loops, the return of the exit code
MainLoop ==
    /\ pc = "main_loop"
    /\ IF Exhausted(cat_i, catalog)
       THEN /\ exit_code' = ExitCode(failed_count)
            /\ pc' = "done"
            /\ UNCHANGED << stack, cat_i, proj_i, processed >>
       ELSE IF Exhausted(proj_i, catalog[cat_i].projects)
       THEN /\ cat_i' = cat_i + 1
            /\ proj_i' = 1
            /\ UNCHANGED << pc, stack, exit_code, processed >>
       ELSE /\ processed' = Append(processed, Project)
            /\ stack' = << "main_after_project" >> \o stack
            /\ pc' = "process_project"
            /\ UNCHANGED << exit_code, cat_i, proj_i >>
    /\ UNCHANGED << readme_exists, catalog, dirs, skip_cache, dry_run,
                    readme_cache, files, successful_count, failed_count, ppVars,
                    retryVars, rawVars, ret, trace, raised, parseVars,
                    analyzeVars,
                    homeVars >>

\* if success
Success(v) == v = PyTrue

\* if success: successful_count += 1  else: failed_count += 1
\* (process_project's frame is gone: its locals and the observations of the
\* call are reset)
MainAfterProject ==
    /\ pc = "main_after_project"
    /\ IF Success(ret)
       THEN /\ successful_count' = successful_count + 1
            /\ UNCHANGED failed_count
       ELSE /\ failed_count' = failed_count + 1
            /\ UNCHANGED successful_count
    /\ proj_i' = proj_i + 1
    /\ pc' = "main_loop"
    /\ ret' = None
    /\ trace' = << >>
    /\ ResetProject /\ ResetRetry /\ ResetRaw
    /\ UNCHANGED << readme_exists, catalog, cat_i, dirs, processed, skip_cache,
                    dry_run, readme_cache, files, exit_code, stack, raised,
                    parseVars, analyzeVars,
                    homeVars >>

-----------------------------------------------------------------------------
(* parse_main_readme.  A line is a tuple of characters; a word that holds  *)
(* none of the characters the patterns name stands as one token.           *)

\* str.strip(), and the two halves of it
RECURSIVE LStrip(_)
LStrip(s) == IF s # << >> /\ Head(s) = " " THEN LStrip(Tail(s)) ELSE s

RECURSIVE RStrip(_)
RStrip(s) ==
    IF s # << >> /\ s[Len(s)] = " " THEN RStrip(SubSeq(s, 1, Len(s) - 1)) ELSE s

Strip(s) == RStrip(LStrip(s))

\* Length of the longest prefix of s made of white space: what \s* takes.
SpaceRun(s) == Len(s) - Len(LStrip(s))

\* Length of the longest prefix of s without the character c: [^c]*
RECURSIVE RunUntil(_, _)
RunUntil(s, c) ==
    IF s = << >> \/ Head(s) = c THEN 0 ELSE 1 + RunUntil(Tail(s), c)

\* category_pattern.match(s) for  ^##\s+(.+)$ : group 1, or NoMatch.  The
\* greedy \s+ gives one character back when nothing is left for (.+).
category_pattern_match(s) ==
    IF Len(s) < 3 \/ s[1] # "#" \/ s[2] # "#" THEN NoMatch
    ELSE LET r == SubSeq(s, 3, Len(s))
             n == SpaceRun(r)
         IN  IF n = 0 THEN NoMatch
             ELSE IF n < Len(r) THEN SubSeq(r, n + 1, Len(r))
             ELSE IF n >= 2 THEN << " " >>
             ELSE NoMatch

\* What project_pattern.match gives: no match, or groups 1 to 3 (group 3 is
\* None when the optional part took no part in the match).
NoProject == [ matched |-> FALSE, title |-> << >>, url |-> << >>, rest |-> None ]

\* \s*(?:-\s*(.+))?$  on what follows the link: group 3, None, or no match
\* (reported as the empty tuple, which (.+) never gives)
TrailingPart(r) ==
    LET t == LStrip(r)
    IN  IF t = << >> THEN None
        ELSE IF Head(t) # "-" THEN NoMatch
        ELSE LET d == Tail(t)
                 k == SpaceRun(d)
             IN  IF k < Len(d) THEN SubSeq(d, k + 1, Len(d))
                 ELSE IF k >= 1 THEN << " " >>
                 ELSE NoMatch

\* project_pattern.match(s) for  -\s+\[([^\]]+)\]\(([^)]+)\)\s*(?:-\s*(.+))?$
project_pattern_match(s) ==
    IF s = << >> \/ Head(s) # "-" THEN NoProject
    ELSE LET r1 == Tail(s)
             n1 == SpaceRun(r1)
             r2 == SubSeq(r1, n1 + 1, Len(r1))
         IN  IF n1 = 0 \/ r2 = << >> \/ Head(r2) # "[" THEN NoProject
             ELSE LET r3 == Tail(r2)
                      n3 == RunUntil(r3, "]")
                      r4 == SubSeq(r3, n3 + 2, Len(r3))
                  IN  IF n3 = 0 \/ n3 = Len(r3) \/ r4 = << >> \/ Head(r4) # "("
                      THEN NoProject
                      ELSE LET r5 == Tail(r4)
                               n5 == RunUntil(r5, ")")
                               r6 == SubSeq(r5, n5 + 2, Len(r5))
                           IN  IF n5 = 0 \/ n5 = Len(r5) \/ TrailingPart(r6) = NoMatch
                               THEN NoProject
                               ELSE [ matched |-> TRUE,
                                      title |-> SubSeq(r3, 1, n3),
                                      url |-> SubSeq(r5, 1, n5),
                                      rest |-> TrailingPart(r6) ]

\* description = project_match.group(3).strip() if project_match.group(3) else None
DescriptionOrEmpty(group3) == IF group3 = None THEN << >> ELSE Strip(group3)
Description(group3) == IF group3 = None THEN None ELSE Strip(group3)

\* Project(title=..., url=..., description=..., category=current_category)
ParsedProject(m, category) ==
    [ title |-> Strip(m.title), url |-> Strip(m.url),
      description |-> Description(m.rest), category |-> category ]

\* current_category in categories
HasKey(mapping, c) == \E i \in 1..Len(mapping) : mapping[i].name = c

\* if current_category not in categories: categories[current_category] = []
AddKey(mapping, c) ==
    IF HasKey(mapping, c) THEN mapping
    ELSE Append(mapping, [ name |-> c, projects |-> << >> ])

\* categories.setdefault(current_category, []).append(project)
AppendFirstKey(mapping, c, p) ==
    [ i \in 1..Len(AddKey(mapping, c)) |->
        IF i = 1
        THEN [ AddKey(mapping, c)[i] EXCEPT !.projects = Append(@, p) ]
        ELSE AddKey(mapping, c)[i] ]
AppendProject(mapping, c, p) ==
    [ i \in 1..Len(AddKey(mapping, c)) |->
        IF AddKey(mapping, c)[i].name = c
        THEN [ AddKey(mapping, c)[i] EXCEPT !.projects = Append(@, p) ]
        ELSE AddKey(mapping, c)[i] ]

\* if not readme_file.exists(): raise FileNotFoundError;  read_text, which
\* may raise;  categories = {}, current_category = "Uncategorized"
ParseOpen ==
    /\ pc = "parse_main_readme"
    /\ IF ~readme_exists
       THEN /\ raised' = "FileNotFoundError"
            /\ pc' = "done"
            /\ UNCHANGED << line_i, categories, current_category >>
       ELSE \/ /\ raised' = "IOError"
               /\ pc' = "done"
               /\ UNCHANGED << line_i, categories, current_category >>
            \/ /\ categories' = NoCategories
               /\ current_category' = << "Uncategorized" >>
               /\ line_i' = 1
               /\ pc' = "parse_loop"
               /\ UNCHANGED raised
    /\ UNCHANGED << readme_exists, catalog, cat_i, dirs, processed, skip_cache,
                    dry_run, proj_i, readme_cache, files, successful_count,
                    failed_count, exit_code, analyzeVars, ppVars, retryVars,
                    rawVars, stack, ret, trace, lines, parse_log,
                    homeVars >>

\* One turn of `for line in lines`: a category header sets the current
\* category and creates its key; else a project entry is appended under
\* the current category; any other line is passed over.
ParseLine ==
    /\ pc = "parse_loop"
    /\ ~Exhausted(line_i, lines)
    /\ LET stripped == Strip(lines[line_i])
           category_match == category_pattern_match(stripped)
           project_match == project_pattern_match(stripped)
       IN  IF category_match # NoMatch
           THEN /\ current_category' = Strip(category_match)
                /\ categories' = AddKey(categories, Strip(category_match))
                /\ UNCHANGED parse_log
           ELSE IF project_match.matched
           THEN LET project == ParsedProject(project_match, current_category)
                IN  /\ categories' = AppendProject(categories, current_category, project)
                    /\ parse_log' = Append(parse_log, << line_i, project >>)
                    /\ UNCHANGED current_category
           ELSE UNCHANGED << categories, current_category, parse_log >>
    /\ line_i' = line_i + 1
    /\ UNCHANGED << readme_exists, catalog, cat_i, dirs, processed, skip_cache,
                    dry_run, proj_i, readme_cache, files, successful_count,
                    failed_count, exit_code, raised, analyzeVars, ppVars,
                    retryVars, rawVars, pc, stack, ret, trace, lines,
                    homeVars >>

\* if total_projects == 0
NoKeys(mapping) == mapping = << >>
NoProjects(mapping) == total_projects(mapping) = 0

\* After the loop: raise ValueError when no project was found, else
\* return categories.
ParseEnd ==
    /\ pc = "parse_loop"
    /\ Exhausted(line_i, lines)
    /\ raised' = IF NoProjects(categories) THEN "ValueError" ELSE "none"
    /\ pc' = "done"
    /\ UNCHANGED << readme_exists, catalog, cat_i, dirs, processed, skip_cache,
                    dry_run, proj_i, readme_cache, files, successful_count,
                    failed_count, exit_code, parseVars, analyzeVars, ppVars,
                    retryVars, rawVars, stack, ret, trace,
                    homeVars >>

-----------------------------------------------------------------------------
(* extract_python_metadata(file_path)                                      *)

\* line[:200] + '...' if len(line) > 200 else line
DescriptionLimit == 200

\* ast.get_docstring(node): None without a docstring, else the text
\* without the blank lines before and after it (inspect.cleandoc).
RECURSIVE DropBlankLines(_)
DropBlankLines(text) ==
    IF text = << >> \/ Strip(Head(text)) # << >> THEN text
    ELSE DropBlankLines(Tail(text))

RECURSIVE Reversed(_)
Reversed(text) ==
    IF text = << >> THEN << >> ELSE Append(Reversed(Tail(text)), Head(text))

get_docstring(node) ==
    IF node.doc.is_none THEN NoDoc
    ELSE [ is_none |-> FALSE,
           text |-> Reversed(DropBlankLines(Reversed(DropBlankLines(node.doc.text)))) ]

\* `if docstring:` is true of a docstring that is not None and not ''
HasText(docstring) == ~docstring.is_none /\ docstring.text # << >>

\* for line in lines: line = line.strip(); if line: ... break
\* gives the first line that is not blank, stripped; '' without one
RECURSIVE FirstNonBlank(_)
FirstNonBlank(text) ==
    IF text = << >> THEN << >>
    ELSE IF Strip(Head(text)) # << >> THEN Strip(Head(text))
    ELSE FirstNonBlank(Tail(text))

\* line[:200] + '...' if len(line) > 200 else line
Ellipsis == << ".", ".", "." >>
TruncatedAtLimit(line) ==
    IF Len(line) >= DescriptionLimit
    THEN SubSeq(line, 1, DescriptionLimit) \o Ellipsis
    ELSE line
Truncated(line) ==
    IF Len(line) > DescriptionLimit
    THEN SubSeq(line, 1, DescriptionLimit) \o Ellipsis
    ELSE line

\* metadata['description'] after the lines of a docstring were gone through
DescriptionFrom(docstring, description) ==
    IF FirstNonBlank(docstring.text) = << >> THEN description
    ELSE Truncated(FirstNonBlank(docstring.text))

\* `not metadata['description']`
NoDescriptionYet(description) == description = None \/ description = << >>

\* [arg.arg for arg in node.args.args]: the names of the plain positional
\* parameters, in order
RECURSIVE ArgNames(_)
ArgNames(params) ==
    IF params = << >> THEN << >>
    ELSE IF Head(params).kind = "arg"
    THEN << Head(params).name >> \o ArgNames(Tail(params))
    ELSE ArgNames(Tail(params))

\* func_info / method_info: name, args and docstring of a definition
FunctionInfo(node) ==
    [ name |-> node.name, args |-> ArgNames(node.params),
      docstring |-> get_docstring(node) ]

\* class_info['methods']: the method_info of the ast.FunctionDef items of
\* a class body, in order.
RECURSIVE Methods(_)
Methods(body) ==
    IF body = << >> THEN << >>
    ELSE IF Head(body).kind = "FunctionDef"
    THEN << FunctionInfo(Head(body)) >> \o Methods(Tail(body))
    ELSE Methods(Tail(body))

\* The names added to method_names for a class body.
MethodNames(body) == { Methods(body)[i].name : i \in 1..Len(Methods(body)) }

\* python_file.exists()  (outside the try block): an error of stat() that
\* pathlib does not take for "missing" is raised to the caller; a missing
\* file returns None; else metadata is initialised.
AnalyzeExists ==
    /\ pc = "extract_python_metadata"
    /\ IF file_state = "stat_error"
       THEN /\ raised' = "OSError"
            /\ pc' = "done"
            /\ UNCHANGED << ret, py_metadata >>
       ELSE IF file_state = "missing"
       THEN /\ ret' = None
            /\ pc' = "done"
            /\ UNCHANGED << raised, py_metadata >>
       ELSE /\ py_metadata' = NoMetadata
            /\ pc' = "analyze_parse"
            /\ UNCHANGED << raised, ret >>
    /\ UNCHANGED << readme_exists, catalog, cat_i, dirs, processed, skip_cache,
                    dry_run, proj_i, readme_cache, files, successful_count,
                    failed_count, exit_code, parseVars, ppVars, retryVars,
                    rawVars, stack, trace, file_state, py_tree, node_i,
                    method_names,
                    homeVars >>

\* try: read_text, ast.parse, the module docstring, method_names = set().
\* An error of read_text or of ast.parse is caught: return None.
AnalyzeParse ==
    /\ pc = "analyze_parse"
    /\ IF file_state # "valid"
       THEN /\ ret' = None
            /\ pc' = "done"
            /\ UNCHANGED << py_metadata, method_names, node_i >>
       ELSE /\ py_metadata' =
                 IF HasText(get_docstring(py_tree))
                 THEN [ py_metadata EXCEPT !.description =
                          DescriptionFrom(get_docstring(py_tree), @) ]
                 ELSE py_metadata
            /\ method_names' = {}
            /\ node_i' = 1
            /\ pc' = "analyze_classes"
            /\ UNCHANGED ret
    /\ UNCHANGED << readme_exists, catalog, cat_i, dirs, processed, skip_cache,
                    dry_run, proj_i, readme_cache, files, successful_count,
                    failed_count, exit_code, parseVars, ppVars, retryVars,
                    rawVars, stack, trace, raised, file_state, py_tree,
                    homeVars >>

\* One turn of the first `for node in tree.body`: a class is recorded with
\* its methods, whose names go to method_names; its docstring gives the
\* description when there is none yet.
AnalyzeClass ==
    /\ pc = "analyze_classes"
    /\ ~Exhausted(node_i, py_tree.body)
    /\ LET node == py_tree.body[node_i]
           class_info == [ name |-> node.name, docstring |-> get_docstring(node),
                           methods |-> Methods(node.body) ]
       IN  IF node.kind = "ClassDef"
           THEN /\ method_names' = method_names \cup MethodNames(node.body)
                /\ py_metadata' =
                     [ py_metadata EXCEPT
                         !.classes = Append(@, class_info),
                         !.description =
                             IF NoDescriptionYet(@) /\ HasText(get_docstring(node))
                             THEN DescriptionFrom(get_docstring(node), @)
                             ELSE @ ]
           ELSE UNCHANGED << method_names, py_metadata >>
    /\ node_i' = node_i + 1
    /\ UNCHANGED << readme_exists, catalog, cat_i, dirs, processed, skip_cache,
                    dry_run, proj_i, readme_cache, files, successful_count,
                    failed_count, exit_code, parseVars, ppVars, retryVars,
                    rawVars, stack, trace, raised, ret, pc, file_state, py_tree,
                    homeVars >>

\* The first loop is over: the second `for node in tree.body` starts.
AnalyzeClassesEnd ==
    /\ pc = "analyze_classes"
    /\ Exhausted(node_i, py_tree.body)
    /\ node_i' = 1
    /\ pc' = "analyze_functions"
    /\ UNCHANGED << readme_exists, catalog, cat_i, dirs, processed, skip_cache,
                    dry_run, proj_i, readme_cache, files, successful_count,
                    failed_count, exit_code, parseVars, ppVars, retryVars,
                    rawVars, stack, trace, raised, ret, file_state, py_tree,
                    py_metadata, method_names,
                    homeVars >>

\* isinstance(node, ast.FunctionDef) and node.name not in method_names
IsTopLevelFunction(node, names) ==
    node.kind = "FunctionDef" /\ node.name \notin names

\* One turn of the second loop: a function whose name is no method's name
\* is recorded; the docstring of `main` gives the description when there
\* is none yet.
AnalyzeFunction ==
    /\ pc = "analyze_functions"
    /\ ~Exhausted(node_i, py_tree.body)
    /\ LET node == py_tree.body[node_i]
           func_info == FunctionInfo(node)
       IN  IF IsTopLevelFunction(node, method_names)
           THEN py_metadata' =
                  [ py_metadata EXCEPT
                      !.functions = Append(@, func_info),
                      !.description =
                          IF /\ NoDescriptionYet(@) /\ node.name = "main"
                             /\ HasText(get_docstring(node))
                          THEN DescriptionFrom(get_docstring(node), @)
                          ELSE @ ]
           ELSE UNCHANGED py_metadata
    /\ node_i' = node_i + 1
    /\ UNCHANGED << readme_exists, catalog, cat_i, dirs, processed, skip_cache,
                    dry_run, proj_i, readme_cache, files, successful_count,
                    failed_count, exit_code, parseVars, ppVars, retryVars,
                    rawVars, stack, trace, raised, ret, pc, file_state, py_tree,
                    method_names,
                    homeVars >>

\* return metadata
Metadata == << "metadata" >>
AnalyzeReturn ==
    /\ pc = "analyze_functions"
    /\ Exhausted(node_i, py_tree.body)
    /\ ret' = Metadata
    /\ pc' = "done"
    /\ UNCHANGED << readme_exists, catalog, cat_i, dirs, processed, skip_cache,
                    dry_run, proj_i, readme_cache, files, successful_count,
                    failed_count, exit_code, parseVars, ppVars, retryVars,
                    rawVars, stack, trace, raised, analyzeVars,
                    homeVars >>

-----------------------------------------------------------------------------
(* generate_homepage.py: gather_agent_metadata (the same text stands in     *)
(* gather_agent_metadata.py) and generate_homepage_markdown.  The content   *)
(* of a page is the sequence of its lines, each a tuple of tokens and each  *)
(* ended by a newline; a token is a mark of the header syntax, a space or a *)
(* word.                                                                    *)

\* A Markdown file rglob found: whether open and read succeed, and its lines.
MdFile(readable, text) == [ readable |-> readable, lines |-> text ]

\* a line that ---\s*\n matches
IsDelimiter(line) ==
    /\ line # << >> /\ line[1] = "---"
    /\ \A i \in 2..Len(line) : line[i] = " "

\* The lines that can close the header: \n---\s*\n after the opening line
\* and the newline that ends (.*?)
ClosingLines(text) == { k \in 3..Len(text) : IsDelimiter(text[k]) }

Least(S) == CHOOSE k \in S : \A j \in S : k <= j

\* re.match(r'^---\s*\n(.*?)\n---\s*\n(.*)$', content, re.DOTALL), and its
\* group(1); (.*?) is lazy, so the first closing line ends the header

frontmatter_match(text) ==
    IF Len(text) >= 3 /\ IsDelimiter(text[1]) /\ ClosingLines(text) # {}
    THEN [ matched |-> TRUE,
           yaml_text |-> SubSeq(text, 2, Least(ClosingLines(text)) - 1) ]
    ELSE [ matched |-> FALSE, yaml_text |-> << >> ]

\* ':' in line,  line.startswith('#'),  line.split(':', 1)
Contains(line, t) == \E i \in 1..Len(line) : line[i] = t
StartsWith(line, t) == line # << >> /\ line[1] = t
EndsWith(line, t) == line # << >> /\ line[Len(line)] = t
SplitAt(line, t) == Least({ i \in 1..Len(line) : line[i] = t })

\* Remove quotes if present
Unquoted(value) ==
    IF StartsWith(value, "\"") /\ EndsWith(value, "\"")
    THEN SubSeq(value, 2, Len(value) - 1)
    ELSE IF StartsWith(value, "'") /\ EndsWith(value, "'")
    THEN SubSeq(value, 2, Len(value) - 1)
    ELSE value

\* result = {};  result[key] = value
EmptyDict == [ k \in {} |-> << >> ]
DictPut(result, key, value) ==
    [ k \in DOMAIN result \cup { key } |-> IF k = key THEN value ELSE result[k] ]

\* metadata.get(key, default)
DictGet(metadata, key, default) ==
    IF key \in DOMAIN metadata THEN metadata[key] ELSE default

\* parse_simple_yaml_frontmatter after the first n lines of yaml_text
RECURSIVE YamlResult(_, _)
YamlResult(yaml_text, n) ==
    IF n = 0 THEN EmptyDict
    ELSE LET result == YamlResult(yaml_text, n - 1)
             line == Strip(yaml_text[n])
         IN  IF Contains(line, ":") /\ ~StartsWith(line, "#")
             THEN LET c == SplitAt(line, ":")
                      key == Strip(SubSeq(line, 1, c - 1))
                      value == Strip(SubSeq(line, c + 1, Len(line)))
                  IN  DictPut(result, key, Unquoted(value))
             ELSE result

parse_simple_yaml_frontmatter(yaml_text) == YamlResult(yaml_text, Len(yaml_text))

\* class AgentMetadata;  file_path is the file's place in the listing
AgentMetadata(title, description, category, url, file_path) ==
    [ title |-> title, description |-> description, category |-> category,
      url |-> url, file_path |-> file_path ]

Uncategorized == << "Uncategorized" >>

\* if not title
NoTitleNever(title) == FALSE
NoTitle(title) == title = << >>

\* if category not in agents_by_category: agents_by_category[category] = []
\* agents_by_category[category].append(agent)
\* (the dict as a sequence of items [name, agents], in insertion order)
HasCategory(mapping, c) == \E i \in 1..Len(mapping) : mapping[i].name = c

AppendAgent(mapping, c, agent) ==
    IF HasCategory(mapping, c)
    THEN [ i \in 1..Len(mapping) |->
             IF mapping[i].name = c
             THEN [ mapping[i] EXCEPT !.agents = Append(@, agent) ]
             ELSE mapping[i] ]
    ELSE Append(mapping, [ name |-> c, agents |-> << agent >> ])

\* total_agents = sum(len(agents) for agents in agents_by_category.values())
RECURSIVE total_agents(_)
total_agents(mapping) ==
    IF mapping = << >> THEN 0
    ELSE Len(Head(mapping).agents) + total_agents(Tail(mapping))

\* if not output_path.exists(): raise FileNotFoundError;  the listing;
\* if total_files == 0: raise ValueError
GatherStart ==
    /\ pc = "gather_agent_metadata"
    /\ IF ~output_dir_exists
       THEN /\ raised' = "FileNotFoundError"
            /\ pc' = "done"
            /\ UNCHANGED md_i
       ELSE IF Len(markdown_files) = 0
       THEN /\ raised' = "ValueError"
            /\ pc' = "done"
            /\ UNCHANGED md_i
       ELSE /\ md_i' = 1
            /\ pc' = "gather_loop"
            /\ UNCHANGED raised
    /\ agents_by_category' = << >>
    /\ parsed_successfully' = 0
    /\ parse_errors' = 0
    /\ UNCHANGED << readme_exists, catalog, cat_i, dirs, processed, skip_cache,
                    dry_run, proj_i, readme_cache, files, successful_count,
                    failed_count, exit_code, parseVars, analyzeVars, ppVars,
                    retryVars, rawVars, stack, ret, trace, output_dir_exists,
                    markdown_files, markdown >>

\* One file of the loop: read it, match the header, parse it, take the
\* fields; count a parse error (the file cannot be read, it has no header,
\* it has no title) or add the agent to its category and count it.
GatherFile ==
    /\ pc = "gather_loop"
    /\ md_i <= Len(markdown_files)
    /\ LET md_file == markdown_files[md_i]
           frontmatter == frontmatter_match(md_file.lines)
           metadata == parse_simple_yaml_frontmatter(frontmatter.yaml_text)
           title == DictGet(metadata, << "title" >>, << >>)
           description == DictGet(metadata, << "description" >>, None)
           category == DictGet(metadata, << "category" >>, Uncategorized)
           url == DictGet(metadata, << "url" >>, << >>)
       IN  IF ~md_file.readable \/ ~frontmatter.matched \/ NoTitle(title)
           THEN /\ parse_errors' = parse_errors + 1
                /\ UNCHANGED << agents_by_category, parsed_successfully >>
           ELSE /\ agents_by_category' =
                     AppendAgent(agents_by_category, category,
                         AgentMetadata(title, description, category, url, md_i))
                /\ parsed_successfully' = parsed_successfully + 1
                /\ UNCHANGED parse_errors
    /\ md_i' = md_i + 1
    /\ UNCHANGED << readme_exists, catalog, cat_i, dirs, processed, skip_cache,
                    dry_run, proj_i, readme_cache, files, successful_count,
                    failed_count, exit_code, raised, parseVars, analyzeVars,
                    ppVars, retryVars, rawVars, pc, stack, ret, trace,
                    output_dir_exists, markdown_files, markdown >>

\* After the loop: if total_agents == 0: raise ValueError;  else return
\* agents_by_category, which main hands to generate_homepage_markdown.
GatherEnd ==
    /\ pc = "gather_loop"
    /\ md_i > Len(markdown_files)
    /\ IF total_agents(agents_by_category) = 0
       THEN /\ raised' = "ValueError"
            /\ pc' = "done"
       ELSE /\ pc' = "generate_homepage_markdown"
            /\ UNCHANGED raised
    /\ UNCHANGED << readme_exists, catalog, cat_i, dirs, processed, skip_cache,
                    dry_run, proj_i, readme_cache, files, successful_count,
                    failed_count, exit_code, parseVars, analyzeVars, ppVars,
                    retryVars, rawVars, stack, ret, trace, homeVars >>

\* The code point of the first character of a token (no two words of the
\* model start alike), and the order of Python's str by it.
CodePoint(t) ==
    CASE t = "B" -> 66 [] t = "Uncategorized" -> 85 [] t = "Z" -> 90
      [] t = "a" -> 97 [] t = "b" -> 98 [] OTHER -> 0

RECURSIVE StrLessEq(_, _)
StrLessEq(s, t) ==
    IF s = << >> THEN TRUE
    ELSE IF t = << >> THEN FALSE
    ELSE IF CodePoint(s[1]) # CodePoint(t[1]) THEN CodePoint(s[1]) < CodePoint(t[1])
    ELSE StrLessEq(Tail(s), Tail(t))

\* sorted(): stable; the items are pairs << key, value >>
RECURSIVE InsertByKey(_, _)
InsertByKey(pairs, p) ==
    IF pairs = << >> THEN << p >>
    ELSE IF StrLessEq(Head(pairs)[1], p[1])
    THEN << Head(pairs) >> \o InsertByKey(Tail(pairs), p)
    ELSE << p >> \o pairs

RECURSIVE SortedFirst(_, _)
SortedFirst(pairs, n) ==
    IF n = 0 THEN << >> ELSE InsertByKey(SortedFirst(pairs, n - 1), pairs[n])

sorted(pairs) == SortedFirst(pairs, Len(pairs))

\* sorted(agents_by_category.keys())
SortedCategories(mapping) ==
    LET s == sorted([ i \in 1..Len(mapping) |-> << mapping[i].name, mapping[i] >> ])
    IN  [ i \in 1..Len(s) |-> s[i][2] ]

\* sorted(agents, key=lambda a: a.title.lower())
TitleKeyAsIs(agent) == agent.title
TitleKey(agent) == Lower(agent.title)

SortedAgents(agents) ==
    LET s == sorted([ i \in 1..Len(agents) |-> << TitleKey(agents[i]), agents[i] >> ])
    IN  [ i \in 1..Len(s) |-> s[i][2] ]

\* relative_link = '../output/' + agent.file_path ... without its '.md'
RelativeLink(file_path) == << "../output/", file_path >>

\* description = agent.description if agent.description else "No description available"
CardDescription(agent) ==
    IF Truthy(agent.description) THEN agent.description
    ELSE << "No description available" >>

\* generate_agent_card(agent, category)
generate_agent_card(agent, category) ==
    [ title |-> agent.title, link |-> RelativeLink(agent.file_path),
      category |-> category, description |-> CardDescription(agent),
      url |-> agent.url ]

NoCard ==
    [ title |-> << >>, link |-> RelativeLink(0), category |-> << >>,
      description |-> << >>, url |-> << >> ]

\* A piece of the page: the two totals of the header, the heading of a
\* section, a card, the end of a section, a line of the overview.
Block(kind, name, count, card) ==
    [ kind |-> kind, name |-> name, count |-> count, card |-> card ]

\* "### {category_name}", the grid with a card for each of sorted_agents
Section(item) ==
    << Block("section", item.name, 0, NoCard) >>
    \o [ i \in 1..Len(item.agents) |->
           Block("card", item.name, 0,
                 generate_agent_card(SortedAgents(item.agents)[i], item.name)) ]
    \o << Block("section end", item.name, 0, NoCard) >>

RECURSIVE Sections(_)
Sections(items) ==
    IF items = << >> THEN << >>
    ELSE Section(Head(items)) \o Sections(Tail(items))

\* "- **{category_name}** - {len(agents)} agent(s)"
Overview(items) ==
    [ i \in 1..Len(items) |->
        Block("overview", items[i].name, Len(items[i].agents), NoCard) ]

generate_homepage_markdown(mapping) ==
    << Block("total agents", << >>, total_agents(mapping), NoCard),
       Block("total categories", << >>, Len(mapping), NoCard) >>
    \o Sections(SortedCategories(mapping))
    \o Overview(SortedCategories(mapping))

\* markdown_content = generate_homepage_markdown(agents_by_category)
HomepageGenerate ==
    /\ pc = "generate_homepage_markdown"
    /\ markdown' = generate_homepage_markdown(agents_by_category)
    /\ pc' = "done"
    /\ UNCHANGED << readme_exists, catalog, cat_i, dirs, processed, skip_cache,
                    dry_run, proj_i, readme_cache, files, successful_count,
                    failed_count, exit_code, raised, parseVars, analyzeVars,
                    ppVars, retryVars, rawVars, stack, ret, trace,
                    output_dir_exists, markdown_files, md_i,
                    agents_by_category, parsed_successfully, parse_errors >>

\* The pages of the model: lines of a header and of a body
Delimiter == << "---" >>
Field(key, value) == << key, ":", " " >> \o value
Quoted(value) == << "\"" >> \o value \o << "\"" >>
Body == << << "#", " ", "body" >> >>
PageWithHeader(yaml_text) ==
    MdFile(TRUE, << Delimiter >> \o yaml_text \o << Delimiter >> \o Body)

AgentPages ==
    { PageWithHeader(<< Field("title", << tc[1] >>), Field("category", << tc[2] >>),
                        Field("url", << "u" >>) >>) :
        tc \in { << "a", "Z" >>, << "B", "Z" >>, << "b", "Z" >>, << "B", "a" >> } }
    \cup
    { PageWithHeader(<< Field("title", << "a" >>), Field("description", << "d" >>) >>),
      PageWithHeader(<< Field("title", << "x" >>), << " ", "title", " ", ":" >> \o Quoted(<< "B" >>),
               << "#", " ", "category", ":", "a" >>,
               Field("category", << "Z" >>), Field("description", << >>) >>),
      MdFile(TRUE, << << "---", " " >>, Field("title", << "b" >>), << >>,
                      Delimiter, Field("title", << "a" >>), Delimiter >>) }

OtherPages ==
    { MdFile(FALSE, << >>),
      MdFile(TRUE, Body),
      MdFile(TRUE, << Delimiter, Field("title", << "a" >>) >>),
      MdFile(TRUE, << Delimiter, Delimiter, Field("title", << "a" >>) >>),
      PageWithHeader(<< Field("category", << "Z" >>) >>),
      PageWithHeader(<< Field("title", Quoted(<< >>)), Field("category", << "a" >>) >>),
      PageWithHeader(<< << "#", "title", ":", " ", "a" >> >>) }

MdFiles == AgentPages \cup OtherPages

\* gather_agent_metadata(output_dir) and generate_homepage_markdown on what
\* it returned, as main calls them
InitHomepage ==
    /\ MainIdle /\ RetryIdle /\ RawIdle /\ ProjectIdle /\ ParseIdle
    /\ AnalyzeIdle
    /\ output_dir_exists \in BOOLEAN
    /\ markdown_files \in (IF output_dir_exists
                           THEN SeqsUpTo(MdFiles, MaxFiles) ELSE { << >> })
    /\ md_i = 0 /\ agents_by_category = << >>
    /\ parsed_successfully = 0 /\ parse_errors = 0 /\ markdown = << >>
    /\ pc = "gather_agent_metadata" /\ stack = << >> /\ ret = None
    /\ trace = << >>

NextHomepage == GatherStart \/ GatherFile \/ GatherEnd \/ HomepageGenerate

SpecHomepage == InitHomepage /\ [][NextHomepage]_vars

-----------------------------------------------------------------------------
(* Specifications of the two fetchers called on their own.                 *)

\* fetch_with_retry(client, fetch_operation, repo_name, max_retries, initial_wait)
InitRetry ==
    /\ MainIdle /\ ProjectIdle /\ RawIdle /\ ParseIdle /\ AnalyzeIdle
    /\ HomeIdle
    /\ pc = "fetch_with_retry" /\ stack = << >> /\ ret = None /\ trace = << >>
    /\ fetch_operation = "callable"
    /\ max_retries \in 0..MaxRetriesArg
    /\ initial_wait \in 0..MaxInitialWait
    /\ attempt = 0 /\ api_calls = << >> /\ sleeps = << >>

NextRetry == RetryReturns \/ RetryRaises \/ RetryExhausted

SpecRetry == InitRetry /\ [][NextRetry]_vars

\* fetch_raw_readme(repo_url, branch)
InitRaw ==
    /\ MainIdle /\ ProjectIdle /\ RetryIdle /\ ParseIdle /\ AnalyzeIdle
    /\ HomeIdle
    /\ pc = "fetch_raw_readme" /\ stack = << >> /\ ret = None /\ trace = << >>
    /\ repo_url \in SeqsUpTo(Tokens, MaxUrlLen)
    /\ branch \in Branches
    /\ readme_i = 0 /\ raw_calls = << >> /\ raw_requests = << >>

NextRaw == RawEntry \/ RawRequestSucceeds \/ RawRequestFails \/ RawLoopEnds

SpecRaw == InitRaw /\ [][NextRaw]_vars

\* parse_main_readme(readme_path) on documents of up to MaxLines lines,
\* each one of Lines: headers (one with blanks around it, one naming
\* "Uncategorized", one that looks like an entry), a third-level header,
\* entries without and with a description (one with blanks everywhere, one
\* whose description is a hyphen), entries the pattern rejects (text without
\* a hyphen, a hyphen without text, no blank after the bullet, an empty
\* title) and the empty line.
Lines ==
    { << "#", "#", " ", "A" >>,
      << "#", "#", " ", " ", "B", " " >>,
      << "#", "#", " ", "Uncategorized" >>,
      << "#", "#", " ", "-", " ", "[", "s", "]", "(", "u", ")" >>,
      << "#", "#", "#", " ", "A" >>,
      << "-", " ", "[", "s", "]", "(", "u", ")" >>,
      << "-", " ", "[", "t", "]", "(", "u", ")", " ", "-", " ", "d" >>,
      << " ", "-", " ", " ", "[", " ", "t", " ", "]", "(", " ", "u", " ", ")",
         " ", " ", "-", " ", " ", "d", " ", "e", " " >>,
      << "-", " ", "[", "s", "]", "(", "u", ")", "-", " ", "-" >>,
      << "-", " ", "[", "s", "]", "(", "u", ")", " ", "d" >>,
      << "-", " ", "[", "s", "]", "(", "u", ")", " ", "-" >>,
      << "-", "[", "s", "]", "(", "u", ")" >>,
      << "-", " ", "[", "]", "(", "u", ")" >>,
      << >> }

InitParse ==
    /\ RetryIdle /\ RawIdle /\ ProjectIdle /\ AnalyzeIdle
    /\ HomeIdle
    /\ readme_exists \in BOOLEAN
    /\ lines \in (IF readme_exists THEN SeqsUpTo(Lines, MaxLines) ELSE { << >> })
    /\ line_i = 0 /\ categories = NoCategories /\ current_category = << >>
    /\ parse_log = << >> /\ raised = "none"
    /\ catalog = << >> /\ cat_i = 0 /\ dirs = {} /\ processed = << >>
    /\ skip_cache = FALSE /\ dry_run = FALSE /\ proj_i = 0
    /\ readme_cache = NoCache /\ files = {}
    /\ successful_count = 0 /\ failed_count = 0 /\ exit_code = -1
    /\ pc = "parse_main_readme" /\ stack = << >> /\ ret = None /\ trace = << >>

NextParse == ParseOpen \/ ParseLine \/ ParseEnd

SpecParse == InitParse /\ [][NextParse]_vars

\* extract_python_metadata(file_path) on a file whose stat() fails, that is
\* missing, that cannot be read, that does not parse (a syntax error, or
\* another error of ast.parse), or that parses to a tree: a module
\* docstring (none, blank, text after a blank line, a line longer than the
\* limit) and up to MaxNodes statements.
FileStates ==
    { "stat_error", "missing", "unreadable", "syntax_error", "parse_error", "valid" }

Doc(text) == [ is_none |-> FALSE, text |-> text ]

\* A line of n characters: the character c, and d in the last place.
Line(n, c, d) == [ i \in 1..n |-> IF i < n THEN c ELSE d ]

\* Module docstrings: none; blank lines only; a short line with blanks
\* around it after a blank line; a line one character over the limit.
ModuleDocs ==
    { NoDoc,
      Doc(<< << " " >> >>),
      Doc(<< << >>, << " ", "m", " ", "o", " " >>, << "x" >> >>),
      Doc(<< Line(DescriptionLimit + 1, "m", "n") >>) }

Param(kind, name) == [ kind |-> kind, name |-> name ]
Item(kind, name, params, doc) ==
    [ kind |-> kind, name |-> name, params |-> params, doc |-> doc ]
Node(kind, name, params, doc, body) ==
    [ kind |-> kind, name |-> name, params |-> params, doc |-> doc, body |-> body ]

\* Statements of a module: a class with a docstring over the limit, a
\* method and an async method; a class without docstring and without
\* methods; `main` with a docstring of exactly the limit; a function that
\* has the name of K's method, a starred parameter and a short docstring;
\* an async function; an assignment.
Nodes ==
    { Node("ClassDef", "K", << >>, Doc(<< Line(DescriptionLimit + 2, "k", "l") >>),
           << Item("FunctionDef", "run", << Param("arg", "self") >>, NoDoc),
              Item("AsyncFunctionDef", "go", << Param("arg", "self") >>, NoDoc) >>),
      Node("ClassDef", "L", << >>, NoDoc,
           << Item("Assign", "x", << >>, NoDoc) >>),
      Node("FunctionDef", "main", << >>, Doc(<< Line(DescriptionLimit, "f", "g") >>), << >>),
      Node("FunctionDef", "run", << Param("arg", "a"), Param("vararg", "b") >>,
           Doc(<< << "r" >> >>), << >>),
      Node("AsyncFunctionDef", "go", << >>, NoDoc, << >>),
      Node("Assign", "x", << >>, NoDoc, << >>) }

Trees == [ doc : ModuleDocs, body : SeqsUpTo(Nodes, MaxNodes) ]

InitAnalyze ==
    /\ MainIdle /\ RetryIdle /\ RawIdle /\ ProjectIdle /\ ParseIdle
    /\ HomeIdle
    /\ file_state \in FileStates
    /\ py_tree \in (IF file_state = "valid" THEN Trees ELSE { NoTree })
    /\ node_i = 0 /\ py_metadata = NoMetadata /\ method_names = {}
    /\ pc = "extract_python_metadata" /\ stack = << >> /\ ret = None
    /\ trace = << >>

NextAnalyze ==
    \/ AnalyzeExists \/ AnalyzeParse \/ AnalyzeClass \/ AnalyzeClassesEnd
    \/ AnalyzeFunction \/ AnalyzeReturn

SpecAnalyze == InitAnalyze /\ [][NextAnalyze]_vars

\* A run of main.  The projects of the catalog have a repository URL
\* (owner a, repo B) or the URL of an organisation page, and a description
\* or none.
CatalogUrls ==
    { << "github.com", "/", "a", "/", "B" >>, << "github.com", "/", "a" >> }

Projects ==
    { [ title |-> << "T" >>, url |-> u, description |-> d, category |-> << "Cat" >> ] :
        u \in CatalogUrls, d \in { None, << "about" >> } }

\* Projects of a second kind: their URL is no repository URL and their
\* titles differ in one character that is not safe in a file name.
PlainTitles == { << "a", "/", "b" >>, << "a", "-", "b" >> }

PlainProjects(c) ==
    { [ title |-> t, url |-> << "github.com", "/", "a" >>,
        description |-> << "about" >>, category |-> c ] : t \in PlainTitles }

\* The mappings parse_main_readme's scan can leave in `categories`: no
\* category at all; one category with any projects of the first kind (none
\* included); two categories with projects of the second kind.
Catalogs ==
    { << >> }
    \cup { << [ name |-> << "Cat" >>, projects |-> ps ] >> :
              ps \in SeqsUpTo(Projects, MaxProjects) }
    \cup { c \in { << [ name |-> << "Cat" >>, projects |-> ps ],
                      [ name |-> << "C", "/", "D" >>, projects |-> qs ] >> :
                      ps \in SeqsUpTo(PlainProjects(<< "Cat" >>), MaxProjects),
                      qs \in SeqsUpTo(PlainProjects(<< "C", "/", "D" >>), MaxProjects) } :
              total_projects(c) <= MaxProjects }

Init ==
    /\ RetryIdle /\ RawIdle /\ ProjectIdle /\ ParseIdle /\ AnalyzeIdle
    /\ HomeIdle
    /\ raised = "none"
    /\ readme_exists \in BOOLEAN
    /\ catalog \in (IF readme_exists THEN Catalogs ELSE { << >> })
    /\ skip_cache \in BOOLEAN
    /\ dry_run \in BOOLEAN
    /\ readme_cache = NoCache
    /\ cat_i = 0 /\ proj_i = 0
    /\ dirs = {} /\ files = {} /\ processed = << >>
    /\ successful_count = 0 /\ failed_count = 0 /\ exit_code = -1
    /\ pc = "main" /\ stack = << >> /\ ret = None /\ trace = << >>

Next ==
    \/ MainStart \/ MainLoop \/ MainAfterProject
    \/ PPStart \/ PPAfterFetch \/ PPChooseTier
    \/ PPSourceSkipped \/ PPSourceUsed \/ PPSourceExhausted \/ PPOutput
    \/ FprEntry \/ FprAfterApi \/ FprAfterRaw
    \/ RetryReturns \/ RetryRaises
    \/ RawEntry \/ RawRequestSucceeds \/ RawRequestFails \/ RawLoopEnds

Spec == Init /\ [][Next]_vars

-----------------------------------------------------------------------------
(* Claims about fetch_with_retry, checked under SpecRetry.                 *)

\* C1: with max_retries >= 1, the operation is invoked at most max_retries
\* times (attempt numbers 0, 1, ...); an invocation that returns normally is
\* the last one and its value is the value returned; when every invocation
\* raised the rate-limit signal the call returns None after exactly
\* max_retries invocations.
C1_RetryContract ==
    max_retries >= 1 =>
        /\ Len(api_calls) <= max_retries
        /\ \A i \in 1..Len(api_calls) :
              /\ api_calls[i].attempt = i - 1
              /\ api_calls[i].outcome = "return" =>
                    /\ i = Len(api_calls)
                    /\ pc = "done"
                    /\ ret = api_calls[i].value
        /\ ( /\ pc = "done"
             /\ \A i \in 1..Len(api_calls) :
                   api_calls[i].outcome = "RateLimitExceededException" )
           => (ret = None /\ Len(api_calls) = max_retries)

\* C1 witness: two rate-limit signals, then a value, with max_retries = 3.
C1_Witness ==
    /\ pc = "done" /\ max_retries = 3 /\ Len(api_calls) = 3
    /\ api_calls[1].outcome = "RateLimitExceededException"
    /\ api_calls[2].outcome = "RateLimitExceededException"
    /\ api_calls[3].outcome = "return"
    /\ ret = <<"readme A">>

\* C2: the j-th sleep lasts initial_wait * 2^(j-1) and follows the
\* rate-limited attempt j-1 < max_retries - 1; invocations and sleeps
\* alternate, starting and ending with an invocation, so that a finished
\* call of n >= 1 invocations slept exactly n - 1 times.
C2_BackoffSchedule ==
    /\ \A j \in 1..Len(sleeps) :
          /\ sleeps[j] = initial_wait * (2 ^ (j - 1))
          /\ j <= Len(api_calls)
          /\ api_calls[j].outcome = "RateLimitExceededException"
          /\ j - 1 < max_retries - 1
    /\ \A i \in 1..Len(trace) :
          trace[i] = IF i % 2 = 1 THEN "api" ELSE "sleep"
    /\ pc = "fetch_with_retry" =>
          (Len(sleeps) = Len(api_calls) /\ Len(trace) = 2 * Len(api_calls))
    /\ (pc = "done" /\ Len(api_calls) >= 1) =>
          (Len(sleeps) = Len(api_calls) - 1 /\ Len(trace) = 2 * Len(api_calls) - 1)

\* C2 witness: three rate-limit signals slept 1, 2 and 4 before a fourth attempt.
C2_Witness ==
    /\ pc = "done" /\ initial_wait = 1 /\ sleeps = << 1, 2, 4 >>
    /\ Len(api_calls) = 4

\* C3: an invocation that raises anything but the rate-limit signal is the
\* last one: the call is over, returned None, and no sleep followed it.
C3_OtherErrorsFailFast ==
    \A i \in 1..Len(api_calls) :
        api_calls[i].outcome = "Exception" =>
            /\ i = Len(api_calls)
            /\ pc = "done"
            /\ ret = None
            /\ Len(sleeps) = i - 1
            /\ trace[Len(trace)] = "api"

\* C3 witness: the first of three allowed attempts raises another error.
C3_Witness ==
    /\ pc = "done" /\ max_retries = 3 /\ Len(api_calls) = 1
    /\ api_calls[1].outcome = "Exception"
    /\ sleeps = << >> /\ ret = None

-----------------------------------------------------------------------------
(* Claims about fetch_raw_readme, checked under SpecRaw.                   *)

\* The shape .../owner/repo[.git][/] after a 'github.com', stated on its own:
\* some 'github.com' is followed by an optional '/' or ':', a non-empty
\* owner without '/', a '/', a non-empty repo without '/', an optional '/'.
HasOwnerRepoShape(u) ==
    \E i \in 1..Len(u) :
        /\ u[i] = "github.com"
        /\ \E s \in 0..1, t \in 0..1, n \in 1..Len(u), m \in 1..Len(u) :
              /\ Len(u) = i + s + n + 1 + m + t
              /\ s = 1 => u[i + 1] \in {"/", ":"}
              /\ \A k \in (i + s + 1)..(i + s + n) : u[k] # "/"
              /\ u[i + s + n + 1] = "/"
              /\ \A k \in (i + s + n + 2)..(i + s + n + 1 + m) : u[k] # "/"
              /\ t = 1 => u[Len(u)] = "/"

C4_Candidates == << "README.md", "README.markdown", "README.rst", "README" >>

\* C4: started on main, the i-th request is for candidate ((i-1) mod 4)+1,
\* on main for i <= 4 and on master for i in 5..8; a request that succeeds
\* is the last one and its body is the value returned; the function is
\* entered at most twice, the second time for master after four failures
\* on main, and only once when started on another branch.
C4_CandidateOrder ==
    /\ (raw_calls # << >> /\ raw_calls[1][2] = "main") =>
          /\ Len(raw_requests) <= 8
          /\ \A i \in 1..Len(raw_requests) :
                /\ raw_requests[i].url[3] = (IF i <= 4 THEN "main" ELSE "master")
                /\ raw_requests[i].url[4] = C4_Candidates[((i - 1) % 4) + 1]
                /\ raw_requests[i].outcome = "ok" =>
                      /\ i = Len(raw_requests)
                      /\ pc = "done"
                      /\ ret = raw_requests[i].body
          /\ Len(raw_calls) <= 2
          /\ Len(raw_calls) = 2 =>
                /\ raw_calls[2] = << repo_url, "master" >>
                /\ Len(raw_requests) >= 4
                /\ \A i \in 1..4 : raw_requests[i].outcome = "failed"
    /\ (raw_calls # << >> /\ raw_calls[1][2] # "main") => Len(raw_calls) = 1

\* C4 witness: four failures on main, then README.md of master is served.
C4_Witness ==
    /\ pc = "done" /\ Len(raw_requests) = 5
    /\ raw_requests[5].url[3] = "master" /\ raw_requests[5].url[4] = "README.md"
    /\ ret = <<"readme A">>

\* C5: a finished call whose last request failed has tried every candidate:
\* it returned None after 8 requests when started on main (4 otherwise);
\* the function only ever is at its entry, in its loop or returned.
C5_FailuresOnlySkip ==
    /\ pc \in { "fetch_raw_readme", "raw_loop", "done" }
    /\ ( /\ pc = "done" /\ raw_requests # << >>
         /\ raw_requests[Len(raw_requests)].outcome = "failed" )
       => /\ ret = None
          /\ Len(raw_requests) = (IF raw_calls[1][2] = "main" THEN 8 ELSE 4)
          /\ \A i \in 1..Len(raw_requests) : raw_requests[i].outcome = "failed"

\* C5 witness: all eight requests failed.
C5_Witness ==
    /\ pc = "done" /\ Len(raw_requests) = 8 /\ ret = None
    /\ \A i \in 1..8 : raw_requests[i].outcome = "failed"

\* C6: for a URL without the owner/repo shape no request is ever issued,
\* the function is entered once only and returns None.
C6_NoMatchNoRequest ==
    ~HasOwnerRepoShape(repo_url) =>
        /\ raw_requests = << >>
        /\ trace = << >>
        /\ Len(raw_calls) <= 1
        /\ pc # "raw_loop"
        /\ pc = "done" => (ret = None /\ raw_calls = << << repo_url, branch >> >>)

\* C6 witness: a github.com URL with a single path segment, on main.
C6_Witness ==
    /\ pc = "done" /\ repo_url = << "github.com", "/", "a" >>
    /\ raw_calls = << << repo_url, "main" >> >> /\ ret = None

-----------------------------------------------------------------------------
(* Claims about fetch_project_readme and process_project, checked under    *)
(* Spec.                                                                   *)

Count(seq, x) == Cardinality({ i \in 1..Len(seq) : seq[i] = x })

\* Control is inside fetch_project_readme, or it has just returned.
InFetchProjectReadme ==
    pc \in { "fetch_with_retry", "fpr_after_api", "fetch_raw_readme", "raw_loop",
             "fpr_after_raw", "pp_after_fetch" }

\* The API tier has returned and gave no content (None or an empty text).
ApiTierGaveNothing ==
    /\ Count(trace, "call fetch_with_retry") = 1
    /\ pc \notin { "fetch_with_retry" }
    /\ \/ api_calls[Len(api_calls)].outcome # "return"
       \/ api_calls[Len(api_calls)].value \in { None, << >> }

\* The API tier has returned content.
ApiTierGaveContent ==
    /\ Count(trace, "call fetch_with_retry") = 1
    /\ pc \notin { "fetch_with_retry" }
    /\ api_calls[Len(api_calls)].outcome = "return"
    /\ api_calls[Len(api_calls)].value \notin { None, << >> }

\* C7: the API tier is entered before anything of the raw tier happens;
\* fetch_project_readme calls fetch_raw_readme at most once, with the
\* project URL (and the default branch), and it has done so exactly when
\* the API tier gave no content; content of the API tier is returned as is.
C7_ApiBeforeRaw ==
    InFetchProjectReadme =>
        /\ \A i \in 1..Len(trace) : \A j \in 1..Len(trace) :
              ( /\ trace[i] \in { "call fetch_raw_readme", "raw" }
                /\ trace[j] \in { "call fetch_with_retry", "api", "sleep" } )
              => j < i
        /\ Count(trace, "call fetch_with_retry") <= 1
        /\ Count(trace, "call fetch_raw_readme") <= 1
        /\ raw_calls # << >> =>
              /\ Count(trace, "call fetch_raw_readme") = 1
              /\ raw_calls[1] = << Project.url, "main" >>
        /\ pc \in { "fetch_raw_readme", "raw_loop", "fpr_after_raw", "pp_after_fetch" } =>
              /\ ApiTierGaveNothing <=> Count(trace, "call fetch_raw_readme") = 1
              /\ ApiTierGaveContent =>
                    /\ raw_calls = << >> /\ raw_requests = << >>
                    /\ ret = api_calls[Len(api_calls)].value

\* C7 witness: the API tier returned an empty text, the raw tier a README.
C7_Witness ==
    /\ pc = "pp_after_fetch" /\ api_calls # << >>
    /\ api_calls[Len(api_calls)].outcome = "return"
    /\ api_calls[Len(api_calls)].value = << >>
    /\ Count(trace, "call fetch_raw_readme") = 1
    /\ ret = <<"readme B">>

\* The raw tier has returned and gave no content.
RawTierGaveNothing ==
    /\ Count(trace, "call fetch_raw_readme") = 1
    /\ pc \in { "fpr_after_raw", "pp_after_fetch" }
    /\ \/ raw_requests = << >>
       \/ raw_requests[Len(raw_requests)].outcome = "failed"
       \/ raw_requests[Len(raw_requests)].body = << >>

C9_Step ==
    /\ ( /\ pc = "process_project" /\ ~readme_cache.is_none
         /\ \E e \in readme_cache.items : e[1] = Project.url )
       => /\ pc' = "pp_tiers" /\ trace' = << >>
          /\ << Project.url, readme_content' >> \in readme_cache.items
          /\ readme_content' \notin { None, << >> }
    /\ ( /\ pc = "pp_after_fetch" /\ ~readme_cache.is_none
         /\ ret \notin { None, << >> } )
       => /\ readme_content' = ret
          /\ << Project.url, ret >> \in readme_cache'.items
    /\ ( /\ pc \in { "pp_tiers", "pp_output" } /\ ~readme_cache.is_none
         /\ readme_content \notin { None, << >> } )
       => /\ trace' = trace /\ src_requests' = << >>
          /\ pc' \in { "pp_output", "main_after_project" }
          /\ final_content' = readme_content
          /\ (pc = "pp_output" /\ ret' = PyTrue /\ ~dry_run) =>
                \E f \in files' :
                    f.path = output_path(Project) /\ f.content = readme_content

C9_CacheAndVerbatim == [][C9_Step]_vars

\* C9 witness: the second project was served from the cache and written.
C9_Witness ==
    /\ pc = "main_after_project" /\ proj_i = 2 /\ ~dry_run /\ ret = PyTrue
    /\ trace = << >>
    /\ readme_content = <<"readme A">>
    /\ << Project.url, <<"readme A">> >> \in readme_cache.items
    /\ \E f \in files : f.content = <<"readme A">> /\ f.metadata.description = Project.description
    /\ catalog[1].projects[1].description # catalog[1].projects[2].description

C10_LowerCase(name) == [ i \in 1..Len(name) |-> IF name[i] = "B" THEN "b" ELSE name[i] ]

\* The candidate file names of the source-file tier for a repository whose
\* first candidate is `first`.
C10_Names(first) ==
    << first, << "main.py" >>, << "app.py" >>, << "run.py" >>, << "__init__.py" >> >>

\* What C10 says with the first candidate left open.
C10_TierThree(first) ==
    /\ src_requests # << >> => readme_content \in { None, << >> }
    /\ Len(src_requests) <= 5
    /\ \A i \in 1..Len(src_requests) :
          /\ src_requests[i].url[3] = "main"
          /\ src_requests[i].url[4] = C10_Names(first)[i]
          /\ src_requests[i].outcome = "used" =>
                /\ i = Len(src_requests)
                /\ pc \in { "pp_output", "main_after_project" }
          /\ i < Len(src_requests) => src_requests[i].outcome = "skipped"
    /\ ( /\ pc = "pp_tier3" ) => Len(src_requests) = file_i - 1
    /\ ( /\ pc \in { "pp_output", "main_after_project" } /\ src_requests # << >>
         /\ src_requests[Len(src_requests)].outcome = "skipped" )
       => Len(src_requests) = 5

\* C10 as stated: the first candidate is {repo}.py, the name as in the URL.
C10_AsStated ==
    src_requests # << >> =>
        C10_TierThree(src_requests[1].url[2] \o << ".py" >>)

\* C10 as amended: the first candidate is the repository name in lower
\* case followed by .py; the rest of the claim as stated.
C10_SourceCandidates ==
    src_requests # << >> =>
        C10_TierThree(C10_LowerCase(src_requests[1].url[2]) \o << ".py" >>)

\* C10 witness: the third candidate is the first to give a description.
C10_Witness ==
    /\ pc = "pp_output" /\ Len(src_requests) = 3
    /\ src_requests[1].outcome = "skipped" /\ src_requests[2].outcome = "skipped"
    /\ src_requests[3].outcome = "used"
    /\ src_requests[3].url = << << "a" >>, << "B" >>, "main", << "app.py" >> >>
    /\ final_content # << >>

-----------------------------------------------------------------------------
(* Claims about process_project's fallback and about main, checked under   *)
(* Spec.                                                                   *)

\* The body made of the catalog entry alone.
C11_Body(p) ==
    << "#" >> \o p.title
    \o (IF p.description \in { None, << >> } THEN << >> ELSE p.description)
    \o << "**Repository:**" >> \o p.url \o << "no README available" >>

\* process_project has returned without a README and without a source file
\* that gave a description.
C11_EveryTierFailed ==
    /\ pc = "main_after_project"
    /\ readme_content \in { None, << >> }
    /\ \A i \in 1..Len(src_requests) : src_requests[i].outcome = "skipped"

\* C11: when process_project returns without a README and without a usable
\* source file, the body it built is the catalog-only body (title,
\* description when present, URL); it returned True unless the write itself
\* raised, and then (outside a dry run) the project's page is in the output
\* tree with that body; for a URL without the owner/repo shape no remote
\* call was made.
C11_CatalogFallback ==
    C11_EveryTierFailed =>
        /\ final_content = C11_Body(Project)
        /\ ret = PyTrue \/ (ret = PyFalse /\ ~dry_run)
        /\ (ret = PyTrue /\ ~dry_run) =>
              \E f \in files :
                  /\ f.path = output_path(Project)
                  /\ f.content = C11_Body(Project)
                  /\ f.metadata.title = Project.title
                  /\ f.metadata.url = Project.url
        /\ ~HasOwnerRepoShape(Project.url) =>
              (trace = << >> /\ src_requests = << >>)

\* C11 witness: the API gave up, eight raw requests and five source files
\* failed, and the page of a project with a description was written.
C11_Witness ==
    /\ C11_EveryTierFailed /\ ~dry_run /\ ret = PyTrue
    /\ Len(src_requests) = 5 /\ Count(trace, "raw") = 8
    /\ Project.description = << "about" >>
    /\ \E f \in files :
          f.content = << "#", "T", "about", "**Repository:**",
                         "github.com", "/", "a", "/", "B", "no README available" >>

\* The projects of a mapping in the order of the mapping and of its lists.
RECURSIVE C12_InOrder(_)
C12_InOrder(cats) ==
    IF cats = << >> THEN << >>
    ELSE Head(cats).projects \o C12_InOrder(Tail(cats))

\* C12: the projects passed to process_project are, at any time, the first
\* ones of the catalog in its order; a project is passed only when every
\* earlier one was counted, and while one is in progress exactly the earlier
\* ones are counted; main goes on whatever process_project returned; once
\* the loops are over every project was passed once and
\* successful_count + failed_count is the number of catalog projects.
C12_EveryProjectOnce ==
    /\ Len(processed) <= Len(C12_InOrder(catalog))
    /\ \A i \in 1..Len(processed) : processed[i] = C12_InOrder(catalog)[i]
    /\ pc \in { "main", "main_loop", "done" } =>
          successful_count + failed_count = Len(processed)
    /\ pc \notin { "main", "main_loop", "done" } =>
          /\ successful_count + failed_count = Len(processed) - 1
          /\ processed[Len(processed)] = Project
    /\ pc \in { "main_loop", "main_after_project" } =>
          ENABLED (MainLoop \/ MainAfterProject)
    /\ (pc = "done" /\ cat_i > 0) =>
          /\ processed = C12_InOrder(catalog)
          /\ successful_count + failed_count = Len(C12_InOrder(catalog))

\* C12 witness: two categories were processed in order, the write of the
\* first project failed and the second project was still processed.
C12_Witness ==
    /\ pc = "done" /\ Len(catalog) = 2 /\ Len(processed) = 2
    /\ processed[1].category = << "Cat" >>
    /\ processed[2].category = << "C", "/", "D" >>
    /\ failed_count = 1 /\ successful_count = 1
    /\ Cardinality(files) = 1
    /\ \E f \in files : f.metadata.category = << "C", "/", "D" >>

\* The catalog file is missing or no project was parsed from it.
C13_NoCatalog ==
    \/ ~readme_exists
    \/ \A i \in 1..Len(catalog) : catalog[i].projects = << >>

\* C13: without a catalog file, or with one that holds no project, main
\* never leaves its first step, creates no directory, writes no file,
\* processes no project, and ends with exit code 1.
C13_NoCatalogExitsOne ==
    C13_NoCatalog =>
        /\ pc \in { "main", "done" }
        /\ dirs = {} /\ files = {} /\ processed = << >> /\ trace = << >>
        /\ pc = "done" => exit_code = 1

\* C13 witness: the catalog file has a category header and no project.
C13_Witness ==
    /\ pc = "done" /\ exit_code = 1 /\ readme_exists
    /\ Len(catalog) = 1 /\ catalog[1].projects = << >>
    /\ dirs = {}

\* C14 as stated: in a dry run nothing is created under the output
\* directory: no directory and no file.
C14_DryRunNoWrites ==
    dry_run => (dirs = {} /\ files = {})

\* The page a project is written to, and whether the tree holds the
\* project's page there.
C15_PagePath(p) ==
    << [ i \in 1..Len(p.category) |->
           IF p.category[i] \in { "/", "\\" } THEN "-" ELSE p.category[i] ],
       [ i \in 1..Len(p.title) |->
           IF p.title[i] \in { "/", "\\" } THEN "-"
           ELSE IF p.title[i] = " " THEN "_" ELSE p.title[i] ] >>

C15_HasPage(p) ==
    \E f \in files :
        /\ f.path = C15_PagePath(p)
        /\ f.metadata.title = p.title
        /\ f.metadata.category = p.category

\* C15 as stated: after a run that wrote and in which no project failed,
\* every catalog project has its page at its path, and projects that differ
\* in title or category have different files.
C15_OneFilePerProject ==
    (pc = "done" /\ cat_i > 0 /\ ~dry_run /\ failed_count = 0) =>
        /\ \A i \in 1..Len(processed) : C15_HasPage(processed[i])
        /\ Cardinality(files) =
              Cardinality({ << processed[i].category, processed[i].title >> :
                              i \in 1..Len(processed) })

\* C16 as stated: process_project returns False when the README fetch and
\* the source-file analysis both gave nothing, and True otherwise.
C16_ReturnAsStated ==
    pc = "main_after_project" =>
        /\ C11_EveryTierFailed => ret = PyFalse
        /\ ( /\ ~C11_EveryTierFailed
             /\ dry_run \/ \E f \in files : f.path = output_path(Project)
                                            /\ f.content = final_content )
           => ret = PyTrue

-----------------------------------------------------------------------------
(* Claims about parse_main_readme, checked under SpecParse.  What a header *)
(* line and an entry line look like is stated here on its own, by the      *)
(* positions of their marks, not through the matchers of the model.        *)

\* The line without the blanks around it.
C17_Trim(s) ==
    LET inked == { k \in 1..Len(s) : s[k] # " " }
    IN  IF inked = {} THEN << >>
        ELSE SubSeq(s, CHOOSE k \in inked : \A j \in inked : k <= j,
                       CHOOSE k \in inked : \A j \in inked : j <= k)

\* The names a trimmed line gives as a category header: '##', one blank or
\* more, and the name, which is the rest of the line.
C17_HeaderNames(s) ==
    { SubSeq(s, m + 3, Len(s)) :
        m \in { m \in 1..Len(s) :
                  /\ Len(s) >= m + 3 /\ s[1] = "#" /\ s[2] = "#"
                  /\ \A k \in 3..(m + 2) : s[k] = " "
                  /\ s[m + 3] # " " } }

C17_IsHeader(k) == C17_HeaderNames(C17_Trim(lines[k])) # {}
C17_HeaderName(k) == CHOOSE c \in C17_HeaderNames(C17_Trim(lines[k])) : TRUE

\* In the trimmed line s the bullet '-', blanks and the link [title](url)
\* stand with '[' at a, ']' at b and ')' at c.
C19_Link(s, a, b, c) ==
    /\ 3 <= a /\ a + 2 <= b /\ b + 3 <= c /\ c <= Len(s)
    /\ s[1] = "-" /\ s[a] = "[" /\ s[b] = "]" /\ s[b + 1] = "(" /\ s[c] = ")"
    /\ \A k \in 2..(a - 1) : s[k] = " "
    /\ \A k \in (a + 1)..(b - 1) : s[k] # "]"
    /\ \A k \in (b + 2)..(c - 1) : s[k] # ")"

\* After the link that ends at c come blanks, a hyphen, blanks and the
\* description, which starts at f and runs to the end of the line.
C19_Tail(s, c, f) ==
    /\ c + 2 <= f /\ f <= Len(s) /\ s[f] # " "
    /\ \E e \in (c + 1)..(f - 1) :
          /\ s[e] = "-"
          /\ \A k \in ((c + 1)..(f - 1)) \ { e } : s[k] = " "

\* Line k is a project entry: a link, and then the end of the line or a
\* description.
C17_IsEntry(k) ==
    LET s == C17_Trim(lines[k])
    IN  /\ ~C17_IsHeader(k)
        /\ \E a \in 1..Len(s) : s[a] = "[" /\
           \E b \in 1..Len(s) : s[b] = "]" /\
           \E c \in 1..Len(s) : s[c] = ")" /\
              /\ C19_Link(s, a, b, c)
              /\ c = Len(s) \/ \E f \in 1..Len(s) : C19_Tail(s, c, f)

\* The category in force at line k: the name of the last header above it,
\* "Uncategorized" when there is none.
C17_CategoryAt(k) ==
    LET above == { j \in 1..(k - 1) : C17_IsHeader(j) }
    IN  IF above = {} THEN << "Uncategorized" >>
        ELSE C17_HeaderName(CHOOSE j \in above : \A i \in above : i <= j)

\* The entry lines that stand under category c, and the n-th of them.
C17_EntryLines(c) ==
    { k \in 1..Len(lines) : C17_IsEntry(k) /\ C17_CategoryAt(k) = c }
C17_NthEntryLine(c, n) ==
    CHOOSE k \in C17_EntryLines(c) :
        Cardinality({ j \in C17_EntryLines(c) : j <= k }) = n

\* The lines that are a header naming c, and the lines that bring the key c
\* into being: those headers, and the entries that stand under c.
C17_HeaderLines(c) ==
    { k \in 1..Len(lines) : C17_IsHeader(k) /\ C17_HeaderName(k) = c }
C17_KeyLines(c) == C17_HeaderLines(c) \cup C17_EntryLines(c)
C17_First(S) == CHOOSE k \in S : \A j \in S : k <= j

C17_Returned == pc = "done" /\ raised = "none"

\* The per-category lists: each key's list holds, in source order, exactly
\* the projects of the entry lines under that category, each one carrying
\* the key in its category field.
C17_Lists ==
    \A i \in 1..Len(categories) :
        LET c == categories[i].name
            ps == categories[i].projects
        IN  /\ Len(ps) = Cardinality(C17_EntryLines(c))
            /\ \A n \in 1..Len(ps) :
                  /\ ps[n].category = c
                  /\ \E x \in 1..Len(parse_log) :
                        parse_log[x] = << C17_NthEntryLine(c, n), ps[n] >>

\* C17 as stated: parse_main_readme returns a mapping whose keys appear in
\* the order of the first occurrence of each category header, whose lists
\* hold exactly the entries found under that header in source order, and
\* whose projects carry the key in the category field.  Read for the keys
\* that a header names: of two such keys the one whose header comes first
\* in the file comes first in the mapping.
C17_AsStated ==
    C17_Returned =>
        /\ C17_Lists
        /\ \A i \in 1..Len(categories) : \A j \in 1..Len(categories) :
              ( /\ i < j
                /\ C17_HeaderLines(categories[i].name) # {}
                /\ C17_HeaderLines(categories[j].name) # {} )
              => C17_First(C17_HeaderLines(categories[i].name))
                   < C17_First(C17_HeaderLines(categories[j].name))

\* C17, amended: the mapping has one key for every category named by a
\* header and, when entries stand above the first header, the key
\* "Uncategorized"; the keys are in the order of the lines that first
\* bring them in (the first header of that name or, for "Uncategorized",
\* the first entry above all headers, whichever comes first); each list
\* holds exactly the entries under that category in source order; each
\* project's category field is its key.
C17_KeysInOrderOfFirstUse ==
    C17_Returned =>
        /\ C17_Lists
        /\ \A i \in 1..Len(categories) : C17_KeyLines(categories[i].name) # {}
        /\ \A k \in 1..Len(lines) :
              /\ C17_IsHeader(k) => HasKey(categories, C17_HeaderName(k))
              /\ C17_IsEntry(k) => HasKey(categories, C17_CategoryAt(k))
        /\ \A i \in 1..Len(categories) : \A j \in 1..Len(categories) :
              i < j => C17_First(C17_KeyLines(categories[i].name))
                         < C17_First(C17_KeyLines(categories[j].name))

\* A returned mapping of two keys with a project each: "Uncategorized",
\* which no header names, for the entry above the header, and then the
\* category of the header.
C17_Witness ==
    /\ C17_Returned
    /\ Len(categories) = 2
    /\ categories[1].name = << "Uncategorized" >>
    /\ C17_HeaderLines(categories[1].name) = {}
    /\ C17_HeaderLines(categories[2].name) # {}
    /\ Len(categories[1].projects) = 1 /\ Len(categories[2].projects) = 1
    /\ categories[1].projects[1].title # categories[2].projects[1].title

\* C18: parse_main_readme raises FileNotFoundError when the catalog file
\* is missing, raises ValueError when the file was read and no line of it
\* is a project entry, and returns only when it found a project.
C18_FileHasEntry == \E k \in 1..Len(lines) : C17_IsEntry(k)
C18_RaisesWithoutProjects ==
    pc = "done" =>
        /\ ~readme_exists => raised = "FileNotFoundError"
        /\ raised = "FileNotFoundError" => ~readme_exists
        /\ (readme_exists /\ raised # "IOError")
              => (raised = "ValueError" <=> ~C18_FileHasEntry)
        /\ raised = "none"
              => \E i \in 1..Len(categories) : categories[i].projects # << >>

\* A file with a category header and no entry was read to its end: there
\* is a key, no project, and ValueError is raised.
C18_Witness ==
    /\ pc = "done" /\ raised = "ValueError"
    /\ readme_exists /\ lines # << >> /\ ~C18_FileHasEntry
    /\ categories # NoCategories

\* The trimmed line s is an entry that gives the project p: the title and
\* the URL are the two parts of the link without the blanks around them;
\* the description is None when the line ends with the link, and else the
\* text after the hyphen, which is never empty.
C19_Entry(s, p) ==
    \E a \in 1..Len(s) : s[a] = "[" /\
    \E b \in 1..Len(s) : s[b] = "]" /\
    \E c \in 1..Len(s) : s[c] = ")" /\
        /\ C19_Link(s, a, b, c)
        /\ p.title = C17_Trim(SubSeq(s, a + 1, b - 1))
        /\ p.url = C17_Trim(SubSeq(s, b + 2, c - 1))
        /\ \/ c = Len(s) /\ p.description = None
           \/ \E f \in 1..Len(s) :
                 /\ C19_Tail(s, c, f)
                 /\ p.description = SubSeq(s, f, Len(s))
                 /\ p.description \notin { None, << >> }

\* C19: every project the parser adds has the title and the URL of its
\* line's link, and a description that is None when the line has no
\* trailing description and the stripped trailing text otherwise.
C19_DescriptionNoneOrText ==
    \A x \in 1..Len(parse_log) :
        /\ parse_log[x][1] \in 1..Len(lines)
        /\ C19_Entry(C17_Trim(lines[parse_log[x][1]]), parse_log[x][2])

\* The parser finished a file with an entry without a description and an
\* entry whose description has blanks before it, in it and after it.
C19_Witness ==
    /\ pc = "done"
    /\ \E x \in 1..Len(parse_log) : \E y \in 1..Len(parse_log) :
          /\ parse_log[x][2].description = None
          /\ parse_log[y][2].description = << "d", " ", "e" >>
          /\ parse_log[y][2].title = << "t" >>
          /\ Len(lines[parse_log[y][1]]) > 12

-----------------------------------------------------------------------------
(* Claims about extract_python_metadata, checked under SpecAnalyze.        *)

\* The file was read and parsed, and its source is empty.
C20_EmptySource == file_state = "valid" /\ py_tree = NoTree

\* C20: extract_python_metadata never raises to its caller: it returns
\* None for a file that is missing or cannot be reached or read and for
\* source that does not parse, and for an empty source it returns a result
\* with no function, no class and no description.
C20_NeverRaises ==
    pc = "done" =>
        /\ raised = "none"
        /\ file_state # "valid" => ret = None
        /\ C20_EmptySource =>
              /\ ret = Metadata
              /\ py_metadata.functions = << >> /\ py_metadata.classes = << >>
              /\ py_metadata.description = None

\* The lines of a docstring that are not blank, and the first of them
\* without the blanks around it.
C21_InkedLines(doc) ==
    IF doc.is_none THEN {}
    ELSE { k \in 1..Len(doc.text) : C17_Trim(doc.text[k]) # << >> }
C21_HasLine(doc) == C21_InkedLines(doc) # {}
C21_FirstLine(doc) == C17_Trim(doc.text[C17_First(C21_InkedLines(doc))])

\* d is the line as a description: the line itself when it has at most
\* DescriptionLimit characters, else its first DescriptionLimit characters
\* and three dots.
C23_CutOf(line, d) ==
    IF Len(line) <= DescriptionLimit THEN d = line
    ELSE /\ Len(d) = DescriptionLimit + 3
         /\ \A i \in 1..DescriptionLimit : d[i] = line[i]
         /\ \A i \in (DescriptionLimit + 1)..(DescriptionLimit + 3) : d[i] = "."

\* The statements of the module that are classes, and those that are
\* plain function definitions.
C21_Classes == { k \in 1..Len(py_tree.body) : py_tree.body[k].kind = "ClassDef" }
C22_Functions == { k \in 1..Len(py_tree.body) : py_tree.body[k].kind = "FunctionDef" }
C21_Mains == { k \in C22_Functions : py_tree.body[k].name = "main"
                                      /\ C21_HasLine(py_tree.body[k].doc) }

\* C21: the description returned by extract_python_metadata is the first
\* non-blank line of the module docstring when the module has one; else
\* that of the docstring of the first class of the module; else (no module
\* docstring, none on the first class) that of the docstring of the
\* top-level function named main; else None.
C21_DescriptionOrder ==
    (pc = "done" /\ ret = Metadata) =>
        IF C21_HasLine(py_tree.doc)
        THEN C23_CutOf(C21_FirstLine(py_tree.doc), py_metadata.description)
        ELSE IF C21_Classes # {} /\ C21_HasLine(py_tree.body[C17_First(C21_Classes)].doc)
        THEN C23_CutOf(C21_FirstLine(py_tree.body[C17_First(C21_Classes)].doc),
                       py_metadata.description)
        ELSE IF C21_Mains # {}
        THEN C23_CutOf(C21_FirstLine(py_tree.body[C17_First(C21_Mains)].doc),
                       py_metadata.description)
        ELSE py_metadata.description = None

\* The k-th smallest member of a set of indexes.
C22_Nth(S, n) == CHOOSE k \in S : Cardinality({ j \in S : j <= k }) = n

\* The entry records name, plain positional parameter names and docstring
\* of the definition.
C22_Describes(info, node) ==
    /\ info.name = node.name
    /\ info.docstring.is_none = node.doc.is_none
    /\ Len(info.args) = Cardinality({ i \in 1..Len(node.params) : node.params[i].kind = "arg" })
    /\ \A i \in 1..Len(info.args) :
          \E j \in 1..Len(node.params) : node.params[j].name = info.args[i]

\* C22: the functions list holds exactly the function definitions at the
\* top level of the module, in source order, each with its name, parameter
\* names and docstring: no method is in it and no top-level function is
\* missing; each class entry lists exactly the methods defined in the body
\* of its class.
C22_FunctionsAndMethods ==
    (pc = "done" /\ ret = Metadata) =>
        /\ Len(py_metadata.functions) = Cardinality(C22_Functions)
        /\ \A n \in 1..Len(py_metadata.functions) :
              C22_Describes(py_metadata.functions[n],
                            py_tree.body[C22_Nth(C22_Functions, n)])
        /\ Len(py_metadata.classes) = Cardinality(C21_Classes)
        /\ \A n \in 1..Len(py_metadata.classes) :
              LET node == py_tree.body[C22_Nth(C21_Classes, n)]
                  defs == { k \in 1..Len(node.body) : node.body[k].kind = "FunctionDef" }
                  methods == py_metadata.classes[n].methods
              IN  /\ py_metadata.classes[n].name = node.name
                  /\ Len(methods) = Cardinality(defs)
                  /\ \A i \in 1..Len(methods) :
                        C22_Describes(methods[i], node.body[C22_Nth(defs, i)])

\* The docstrings a description can come from.
C23_Sources ==
    { py_tree.doc } \cup
    { py_tree.body[k].doc : k \in C21_Classes \cup C22_Functions }

\* C23: a description line longer than 200 characters is cut to its first
\* 200 characters followed by '...' (203 characters), a line of 200
\* characters or fewer is returned unchanged, whichever docstring (module,
\* class or main) the description is taken from.
C23_CutAtLimit ==
    py_metadata.description # None =>
        \E doc \in C23_Sources :
            /\ C21_HasLine(doc)
            /\ C23_CutOf(C21_FirstLine(doc), py_metadata.description)

\* A result whose description was cut from the docstring of a class that
\* has a line of 202 characters.
C23_Witness ==
    /\ pc = "done" /\ ret = Metadata
    /\ ~C21_HasLine(py_tree.doc)
    /\ Len(py_metadata.description) = DescriptionLimit + 3
    /\ py_metadata.description[DescriptionLimit] = "k"
    /\ py_metadata.description[DescriptionLimit + 3] = "."

-----------------------------------------------------------------------------
(* Claims about the run as a whole, checked under Spec.                    *)

C24_Step ==
    /\ pc # "main_after_project" =>
          (failed_count' = failed_count /\ successful_count' = successful_count)
    /\ pc = "main_after_project" =>
          /\ ret \in { PyTrue, PyFalse }
          /\ ret = PyFalse =>
                (failed_count' = failed_count + 1 /\ successful_count' = successful_count)
          /\ ret = PyTrue =>
                (failed_count' = failed_count /\ successful_count' = successful_count + 1)
          /\ (C11_EveryTierFailed /\ final_content = C11_Body(Project) /\ ret = PyTrue) =>
                failed_count' = failed_count
    /\ (pc = "main_loop" /\ pc' = "done") =>
          /\ exit_code' \in { 0, 1 }
          /\ exit_code' = 0 <=> failed_count = 0
    /\ (pc = "main" /\ pc' = "done") => exit_code' = 1

C25_Step ==
    /\ \A e \in readme_cache'.items : e[2] \notin { None, << >> }
    /\ \A e \in readme_cache'.items : \A g \in readme_cache'.items :
          e[1] = g[1] => e = g
    /\ readme_cache.items \subseteq readme_cache'.items
    /\ \A e \in readme_cache'.items \ readme_cache.items :
          /\ pc = "pp_after_fetch" /\ ~skip_cache
          /\ e = << Project.url, ret >>
    /\ (pc = "pp_after_fetch" /\ ret \in { None, << >> }) =>
          readme_cache' = readme_cache
    /\ ( /\ pc = "process_project"
         /\ \A e \in readme_cache.items : e[1] # Project.url )
       => /\ pc' = "fetch_project_readme"
          /\ trace' = << >> /\ api_calls' = << >> /\ raw_requests' = << >>
    /\ (skip_cache /\ pc # "main") =>
          /\ readme_cache.is_none /\ readme_cache'.is_none
          /\ readme_cache'.items = {}
          /\ pc = "process_project" => pc' = "fetch_project_readme"
    /\ (~skip_cache /\ pc # "main") => ~readme_cache.is_none

C25_CacheOnlyGrows == [][C25_Step]_vars

\* With the cache on, the fetch for the first project gave nothing, nothing
\* was stored, and the second project, which has the same URL, is at the
\* start of its own fetch.
C25_Witness ==
    /\ pc = "fetch_project_readme" /\ ~skip_cache
    /\ Len(processed) = 2 /\ processed[1].url = processed[2].url
    /\ ~readme_cache.is_none /\ readme_cache.items = {}
    /\ trace = << >>

\* C26: the header of a written page holds exactly title, url and category
\* of the catalog entry of a processed project, and the entry's description
\* exactly when the entry has one; when process_project returned True
\* outside a dry run, the page at the project's path has that header and
\* the body the tiers produced, whatever the source-file tier put in
\* final_metadata.
C26_Header(f, p) ==
    /\ DOMAIN f.metadata = { "title", "url", "category", "description" }
    /\ f.metadata.title = p.title
    /\ f.metadata.url = p.url
    /\ f.metadata.category = p.category
    /\ (p.description = None => f.metadata.description = None)
    /\ (p.description # None => f.metadata.description = p.description)

C26_HeaderFromCatalog ==
    /\ \A f \in files :
          \E i \in 1..Len(processed) :
             f.path = output_path(processed[i]) /\ C26_Header(f, processed[i])
    /\ (pc = "main_after_project" /\ ret = PyTrue /\ ~dry_run)
          => \E f \in files :
                /\ f.path = output_path(Project)
                /\ C26_Header(f, Project)
                /\ f.content = final_content

\* The source-file tier produced the body and a description of its own for
\* a project whose catalog entry has none: the page's header has none.
C26_Witness ==
    /\ pc = "main_after_project" /\ ret = PyTrue /\ ~dry_run
    /\ final_metadata.python_metadata
    /\ final_metadata.description # None
    /\ Project.description = None
    /\ \E f \in files :
          /\ f.path = output_path(Project)
          /\ f.metadata.description = None
          /\ f.content = final_content

\* C28: no temporary file made by process_project is left on disk once a
\* candidate of the source-file tier has been dealt with: not when the next
\* candidate is tried, not when the page is written, not when
\* process_project has returned.
C28_TempFilesDeleted ==
    pc \in { "pp_tier3", "pp_output", "main_after_project" } => ~temp_left

\* The tier an entry of the trace belongs to: the API tier with its calls
\* and sleeps, the raw tier, the source-file tier.
C27_Tier(e) ==
    CASE e \in { "call fetch_with_retry", "api", "sleep" } -> 1
      [] e \in { "call fetch_raw_readme", "raw" } -> 2
      [] e = "src" -> 3
      [] OTHER -> 0

\* The remote calls made for the project in hand are at most 3 API
\* invocations, 8 raw README requests and 5 source-file requests, tier
\* after tier; a call of process_project that has returned went through
\* the page-writing step.
C27_BoundedCalls ==
    /\ Count(trace, "api") <= 3
    /\ Count(trace, "raw") <= 8
    /\ Count(trace, "src") <= 5
    /\ \A i \in 1..Len(trace) :
          /\ C27_Tier(trace[i]) > 0
          /\ i > 1 => C27_Tier(trace[i - 1]) <= C27_Tier(trace[i])
    /\ pc = "main_after_project" =>
          /\ ret \in { PyTrue, PyFalse }
          /\ final_content # << >>
          /\ (ret = PyTrue /\ ~dry_run) =>
                \E f \in files : f.path = output_path(Project)
                                 /\ f.content = final_content

\* What is left to do: the projects not yet handed to process_project,
\* then the position in the code, then what the loop in hand has left.
C27_Position ==
    CASE pc = "main" -> 20
      [] pc = "process_project" -> 15
      [] pc = "fetch_project_readme" -> 14
      [] pc = "fetch_with_retry" -> 13
      [] pc = "fpr_after_api" -> 12
      [] pc \in { "fetch_raw_readme", "raw_loop" } -> 11
      [] pc = "fpr_after_raw" -> 10
      [] pc = "pp_after_fetch" -> 9
      [] pc = "pp_tiers" -> 8
      [] pc = "pp_tier3" -> 7
      [] pc = "pp_output" -> 6
      [] pc = "main_after_project" -> 5
      [] pc = "main_loop" -> 4
      [] OTHER -> 0

C27_LoopLeft ==
    CASE pc = "main_loop" -> Len(catalog) + 1 - cat_i
      [] pc = "fetch_with_retry" -> max_retries - attempt
      [] pc = "fetch_raw_readme" -> IF branch = "main" THEN 20 ELSE 10
      [] pc = "raw_loop" -> (IF branch = "main" THEN 19 ELSE 9) - readme_i
      [] pc = "pp_tier3" -> 6 - file_i
      [] OTHER -> 0

C27_Measure ==
    (total_projects(catalog) - Len(processed)) * 10000
    + C27_Position * 100 + C27_LoopLeft

\* A run that has not ended can take a step: the statement at hand is one
\* whose condition holds (an if with both branches and a loop with its body
\* or its end leave no other case).
C27_CanStep ==
    CASE pc \in { "main", "main_loop", "main_after_project", "process_project",
                  "pp_after_fetch", "pp_tiers", "pp_output",
                  "fetch_project_readme", "fpr_after_api", "fpr_after_raw",
                  "fetch_raw_readme" } -> TRUE
      [] pc = "fetch_with_retry" -> ENABLED (RetryReturns \/ RetryRaises)
      [] pc = "raw_loop" ->
            readme_i <= Len(readme_filenames) \/ ENABLED RawLoopEnds
      [] pc = "pp_tier3" -> file_i <= 5 \/ ENABLED PPSourceExhausted
      [] OTHER -> FALSE

\* C27: processing one project makes at most 3 API invocations, then at
\* most 8 raw README requests, then at most 5 source-file requests, never
\* going back to an earlier tier, and reaches the page-writing step; every
\* step of a run brings the end nearer and a run that has not ended can
\* take a step, so a run over a finite catalog terminates.
C27_BoundedAndTerminates ==
    /\ [](C27_BoundedCalls /\ C27_Measure >= 0 /\ C27_LoopLeft < 100)
    /\ [](pc # "done" => C27_CanStep)
    /\ [][C27_Measure' < C27_Measure]_vars

\* Every tier was used to its bound for one project and the page was
\* written from the catalog alone.
C27_Witness ==
    /\ pc = "main_after_project" /\ ret = PyTrue /\ ~dry_run
    /\ Count(trace, "api") = 3
    /\ Count(trace, "raw") = 8
    /\ Count(trace, "src") = 5
    /\ \E f \in files : f.path = output_path(Project)

-----------------------------------------------------------------------------
(* Claims about the homepage generator, checked under SpecHomepage.  What  *)
(* the header of a page and a field of it are is stated here on its own.   *)

\* A line that is nothing but '---' and blanks after it.
C29_Fence(line) == line # << >> /\ line[1] = "---" /\ C17_Trim(line) = << "---" >>

\* The line that ends the header of a page whose first line is a fence:
\* the first fence from the third line on (0 when there is none).
C29_HeaderEnd(text) ==
    LET ends == { k \in 3..Len(text) :
                    C29_Fence(text[k]) /\ \A j \in 3..(k - 1) : ~C29_Fence(text[j]) }
    IN  IF Len(text) >= 3 /\ C29_Fence(text[1]) /\ ends # {}
        THEN CHOOSE k \in ends : TRUE ELSE 0

\* The place of the first colon of a line (0 when it has none).
C29_Colon(t) ==
    LET colons == { c \in 1..Len(t) : t[c] = ":" /\ \A j \in 1..(c - 1) : t[j] # ":" }
    IN  IF colons = {} THEN 0 ELSE CHOOSE c \in colons : TRUE

\* The line, trimmed, is `key: value` for the given key and no comment.
C29_IsField(line, key) ==
    LET t == C17_Trim(line)
    IN  /\ t # << >> /\ t[1] # "#" /\ C29_Colon(t) > 0
        /\ C17_Trim(SubSeq(t, 1, C29_Colon(t) - 1)) = << key >>

\* The value of such a line: what follows the colon, trimmed, without the
\* quotes around it.
C29_FieldValue(line) ==
    LET t == C17_Trim(line)
        v == C17_Trim(SubSeq(t, C29_Colon(t) + 1, Len(t)))
    IN  IF v # << >> /\ v[1] \in { "\"", "'" } /\ v[Len(v)] = v[1]
        THEN SubSeq(v, 2, Len(v) - 1) ELSE v

\* The value the header gives a key: that of the last line for it.
C29_Value(text, key, default) ==
    LET at == { n \in 2..(C29_HeaderEnd(text) - 1) : C29_IsField(text[n], key) }
    IN  IF at = {} THEN default
        ELSE C29_FieldValue(text[CHOOSE n \in at : \A j \in at : j <= n])

\* The file gives an agent: it can be read, it has a header, the header has
\* a title.
C29_GivesAgent(f) ==
    /\ f.readable
    /\ C29_HeaderEnd(f.lines) > 0
    /\ C29_Value(f.lines, "title", << >>) # << >>

\* Where the agents made from the i-th file stand in the mapping.
C29_AgentsOf(i) ==
    { h \in { << c, j >> : c \in 1..Len(agents_by_category), j \in 1..MaxFiles + 1 } :
        /\ h[2] <= Len(agents_by_category[h[1]].agents)
        /\ agents_by_category[h[1]].agents[h[2]].file_path = i }

\* The files the loop has dealt with.
C29_Handled == IF md_i = 0 THEN 0 ELSE md_i - 1

\* C29: every Markdown file the loop has dealt with is either one agent,
\* under the category of its header ('Uncategorized' without one), or one
\* parse error (unreadable, no header, no title); the two counters add up
\* to the number of files and the agents are as many as
\* parsed_successfully; the function raises when the directory is
\* missing, when there is no Markdown file and when no file gave an agent,
\* and returns, with every file dealt with, otherwise.
C29_EveryFileClassifiedOnce ==
    /\ parsed_successfully + parse_errors = C29_Handled
    /\ total_agents(agents_by_category) = parsed_successfully
    /\ \A i \in 1..Len(markdown_files) :
          IF i <= C29_Handled /\ C29_GivesAgent(markdown_files[i])
          THEN /\ Cardinality(C29_AgentsOf(i)) = 1
               /\ \A h \in C29_AgentsOf(i) :
                     /\ agents_by_category[h[1]].name =
                           C29_Value(markdown_files[i].lines, "category",
                                     << "Uncategorized" >>)
                     /\ agents_by_category[h[1]].agents[h[2]].title =
                           C29_Value(markdown_files[i].lines, "title", << >>)
          ELSE C29_AgentsOf(i) = {}
    /\ \A c, d \in 1..Len(agents_by_category) :
          /\ agents_by_category[c].agents # << >>
          /\ agents_by_category[c].name = agents_by_category[d].name => c = d
    /\ pc \in { "generate_homepage_markdown", "done" } =>
          /\ raised = "FileNotFoundError" <=> ~output_dir_exists
          /\ raised = "ValueError" <=>
                /\ output_dir_exists
                /\ \A i \in 1..Len(markdown_files) :
                      ~C29_GivesAgent(markdown_files[i])
          /\ raised = "none" =>
                /\ C29_Handled = Len(markdown_files)
                /\ parsed_successfully > 0

\* Three files were scanned: one is a parse error, one an agent without
\* category, one an agent with a category.
C29_Witness ==
    /\ pc = "generate_homepage_markdown"
    /\ parse_errors = 1 /\ parsed_successfully = 2
    /\ \E c, d \in 1..Len(agents_by_category) :
          /\ agents_by_category[c].name = << "Uncategorized" >>
          /\ agents_by_category[d].name = << "Z" >>

\* The places of the blocks of one kind in the page.
C30_At(kind) == { k \in 1..Len(markdown) : markdown[k].kind = kind }

\* The heading of the section a block stands in: the last one before it.
C30_SectionOf(k) ==
    LET before == { s \in C30_At("section") : s < k }
    IN  IF before = {} THEN 0 ELSE CHOOSE s \in before : \A t \in before : t <= s

\* The cards of the section with heading s: those after it and before its
\* end.
C30_CardsOf(s) ==
    { k \in C30_At("card") :
        /\ C30_SectionOf(k) = s
        /\ \A e \in C30_At("section end") : s < e => k < e }

\* The cards that link to the page of an agent.
C30_CardsFor(agent) ==
    { k \in C30_At("card") :
        markdown[k].card.link = << "../output/", agent.file_path >> }

\* C30: the page has one section for each category, the sections in
\* ascending order of the names; each agent has exactly one card, in the
\* section of its category, and the cards of a section stand in the order
\* of their titles, case aside; the totals of the header are the numbers
\* of cards and of sections, and the overview has for each section one
\* line with the number of its cards.
C30_SectionsAndCards ==
    (pc = "done" /\ raised = "none") =>
        /\ Cardinality(C30_At("section")) = Len(agents_by_category)
        /\ \A c \in 1..Len(agents_by_category) :
              \E s \in C30_At("section") :
                 /\ markdown[s].name = agents_by_category[c].name
                 /\ Cardinality(C30_CardsOf(s)) = Len(agents_by_category[c].agents)
                 /\ \A j \in 1..Len(agents_by_category[c].agents) :
                       LET agent == agents_by_category[c].agents[j]
                       IN  /\ Cardinality(C30_CardsFor(agent)) = 1
                           /\ C30_CardsFor(agent) \subseteq C30_CardsOf(s)
                           /\ \A k \in C30_CardsFor(agent) :
                                 /\ markdown[k].card.title = agent.title
                                 /\ markdown[k].card.category = markdown[s].name
        /\ \A s, t \in C30_At("section") :
              s < t => /\ markdown[s].name # markdown[t].name
                       /\ StrLessEq(markdown[s].name, markdown[t].name)
        /\ \A k, l \in C30_At("card") :
              (k < l /\ C30_SectionOf(k) = C30_SectionOf(l))
              => StrLessEq(Lower(markdown[k].card.title),
                           Lower(markdown[l].card.title))
        /\ \A k \in C30_At("card") : k \in C30_CardsOf(C30_SectionOf(k))
        /\ \A h \in C30_At("total agents") :
              markdown[h].count = Cardinality(C30_At("card"))
        /\ \A h \in C30_At("total categories") :
              markdown[h].count = Cardinality(C30_At("section"))
        /\ C30_At("total agents") # {} /\ C30_At("total categories") # {}
        /\ Cardinality(C30_At("overview")) = Cardinality(C30_At("section"))
        /\ \A s \in C30_At("section") :
              \E o \in C30_At("overview") :
                 /\ markdown[o].name = markdown[s].name
                 /\ markdown[o].count = Cardinality(C30_CardsOf(s))

\* Category 'a' was met before category 'Z' and, in 'Z', title 'B' before
\* title 'a': the page has section 'Z' first and in it the card of 'a' first.
C30_Witness ==
    /\ pc = "done" /\ raised = "none"
    /\ Len(agents_by_category) = 2
    /\ agents_by_category[1].name = << "a" >>
    /\ agents_by_category[2].name = << "Z" >>
    /\ Len(agents_by_category[2].agents) = 2
    /\ agents_by_category[2].agents[1].title = << "B" >>
    /\ agents_by_category[2].agents[2].title = << "a" >>
    /\ \E s \in C30_At("section") :
          /\ markdown[s].name = << "Z" >>
          /\ markdown[s + 1].kind = "card"
          /\ markdown[s + 1].card.title = << "a" >>
          /\ markdown[s + 2].card.title = << "B" >>
          /\ \E t \in C30_At("section") : s < t /\ markdown[t].name = << "a" >>

=============================================================================
